---- MODULE Spec2Model ----
(***************************************************************************)
(* Verification model of the finance analytics backend (apps/api/app).     *)
(*                                                                         *)
(* Units.  A quantity is an integer number of 1e-9 shares, the tolerance   *)
(* the code uses in `remaining > 1e-9`; 1e-8 shares are therefore ten      *)
(* units.  Money is counted in hundredths, so that round(x, 2) is rounding *)
(* to an integer, and a price is money per quantity unit.  Python floats   *)
(* are modelled by exact rationals <<numerator, denominator>>.             *)
(***************************************************************************)
EXTENDS Integers, Sequences, FiniteSets, TLC

(***************************************************************************)
(* Bounds of the model.                                                    *)
(***************************************************************************)
MaxTaxTx == 3
MaxLedger == 3
MaxSymbols == 2
ExtraSymbols == 1

(***************************************************************************)
(* Program constants.                                                      *)
(***************************************************************************)
LongTermDays == 365
LotEpsilon == 1         \* 1e-9 shares
PositionEpsilon == 10   \* 1e-8 shares

VARIABLES
    taxPc,          \* position inside _tax_gain_calculation
    transactions,   \* its `transactions` argument, in the caller's order
    tx_rows,        \* the sorted copy it iterates over
    taxIdx,         \* number of rows of tx_rows already processed
    lots_by_symbol, \* symbol -> FIFO list of open lots
    realized_short,
    realized_long,
    taxResult,      \* the returned dict, None before the return
    positions,      \* portfolio_positions of one portfolio: symbol -> row
    ledger,         \* portfolio_transactions of that portfolio, in insert order
    response,       \* the last HTTP response of the portfolio endpoints
    insPc,          \* position inside portfolio_insights
    tx_payload,     \* its serialized transaction rows
    insPositions,   \* portfolio.positions as loaded by the request
    bundles,        \* symbol -> state of its fetch_symbol_bundle coroutine
    holdings,       \* the holdings list built after the gather
    scrPc,          \* position inside ScreenerService.run
    filters,        \* its `filters` argument
    clean_symbols,  \* the symbols it evaluates
    upstream,       \* symbol -> how the providers treat its fetch bundle
    taskPc,         \* symbol -> the await its evaluate task is suspended at
    enrichment,     \* symbol -> locals of evaluate set by the optional awaits
    taskResult,     \* symbol -> Null or <<row>>, what the task returned
    permits,        \* semaphore._value
    waiters,        \* live waiters of the semaphore, oldest first
    orphans,        \* symbol -> fetches of a failed bundle still running
    elimination_counts,
    done,           \* the two sets asyncio.wait returned
    pending,
    scrRows,        \* `rows` after the post-pass
    scrResult,      \* the dict run returned, Null before
    stockPc,        \* position inside the analytics function under call
    stockArgs,      \* the arguments of that call
    stockLocals,    \* the locals of its loop
    stockOut,       \* what it returned
    clock,          \* time.time(), in ticks
    store,          \* MemoryTTLCache._store: key -> entry, Null if absent
    cacheCalls,     \* caller -> its call of the cache under way
    requests,       \* RateLimitMiddleware.requests: ip -> deque of timestamps
    served          \* the requests answered so far, oldest first

taxVars == <<taxPc, transactions, tx_rows, taxIdx, lots_by_symbol,
             realized_short, realized_long, taxResult>>

dbVars == <<positions, ledger>>

insVars == <<insPc, tx_payload, insPositions, bundles, holdings>>

scrVars == <<scrPc, filters, clean_symbols, upstream, taskPc, enrichment,
             taskResult, permits, waiters, orphans, elimination_counts, done,
             pending, scrRows, scrResult>>

portfolioVars == <<taxVars, dbVars, response, insVars>>

stockVars == <<stockPc, stockArgs, stockLocals, stockOut>>

coreVars == <<clock, store, cacheCalls, requests, served>>

vars == <<portfolioVars, scrVars, stockVars, coreVars>>

None == "None"

Symbols == {"AAA", "BBB"}

\* no analytics function is under call
StockIdle ==
    /\ stockPc = "idle"
    /\ stockArgs = [fn |-> "none"]
    /\ stockLocals = [fn |-> "none"]
    /\ stockOut = [fn |-> "none"]

\* the clients and addresses the cache and the rate limiter serve
Callers == {1, 2}
Keys == {"k1", "k2"}
Ips == {"10.0.0.1", "10.0.0.2"}

\* a fresh process: an empty cache, no call under way, no request seen
CoreIdle ==
    /\ clock = 0
    /\ store = [k \in Keys |-> <<>>]
    /\ cacheCalls = [c \in Callers |-> [pc |-> "idle"]]
    /\ requests = [ip \in Ips |-> <<>>]
    /\ served = <<>>

(***************************************************************************)
(* Exact rational arithmetic standing for float arithmetic.                *)
(***************************************************************************)
Abs(x) == IF x < 0 THEN -x ELSE x

RECURSIVE GCD(_, _)
GCD(a, b) == IF b = 0 THEN a ELSE GCD(b, a % b)

RNorm(n, d) == LET g == GCD(Abs(n), d) IN <<n \div g, d \div g>>
RInt(n) == <<n, 1>>
RZero == RInt(0)
RAdd(a, b) == RNorm(a[1] * b[2] + b[1] * a[2], a[2] * b[2])
RSub(a, b) == RNorm(a[1] * b[2] - b[1] * a[2], a[2] * b[2])
RScale(k, a) == RNorm(k * a[1], a[2])
RDivInt(a, k) == RNorm(a[1], a[2] * k)
RLess(a, b) == a[1] * b[2] < b[1] * a[2]
RLeq(a, b) == a[1] * b[2] <= b[1] * a[2]
RPos(a) == a[1] > 0

\* round(x): round half to even
RoundHalfEven(a) ==
    LET q == a[1] \div a[2]
        r == a[1] - q * a[2]
    IN  IF 2 * r < a[2] THEN q
        ELSE IF 2 * r > a[2] THEN q + 1
        ELSE IF q % 2 = 0 THEN q ELSE q + 1

\* round(x, 2) on money counted in hundredths
Round2(a) == RoundHalfEven(a)

Min(a, b) == IF a < b THEN a ELSE b
Max(a, b) == IF a > b THEN a ELSE b

(***************************************************************************)
(* PortfolioService._tax_gain_calculation                                  *)
(***************************************************************************)
Tx(sym, side, qty, price, fee, day, created) ==
    [symbol |-> sym, side |-> side, quantity |-> qty, price |-> price,
     fee |-> fee, trade_date |-> day, created_at |-> created]

\* sort key (trade_date, created_at), compared as Python compares tuples
KeyLess(a, b) ==
    \/ a.trade_date < b.trade_date
    \/ a.trade_date = b.trade_date /\ a.created_at < b.created_at

KeyLeq(a, b) == ~KeyLess(b, a)

\* insert tx after every row whose key is not larger (sorted() is stable)
RECURSIVE InsertByKey(_, _)
InsertByKey(rows, tx) ==
    IF rows = <<>> THEN <<tx>>
    ELSE IF KeyLess(tx, Head(rows)) THEN <<tx>> \o rows
    ELSE <<Head(rows)>> \o InsertByKey(Tail(rows), tx)

\* the rows taken in the caller's order
RowsAsGiven(txs) == txs

RECURSIVE SortedRows(_)
SortedRows(txs) ==
    IF txs = <<>> THEN <<>>
    ELSE InsertByKey(SortedRows(SubSeq(txs, 1, Len(txs) - 1)), txs[Len(txs)])

UnitCost(tx) == RNorm(tx.quantity * tx.price + tx.fee, tx.quantity)
UnitProceeds(tx) == RNorm(tx.quantity * tx.price - tx.fee, tx.quantity)

IsLongTerm(sellDay, lotDay) == sellDay - lotDay >= LongTermDays

\* the `while remaining > 1e-9 and lots` loop of one sell
RECURSIVE ConsumeLots(_, _, _, _, _, _)
ConsumeLots(lots, remaining, unit_proceeds, trade_date, rs, rl) ==
    IF remaining > LotEpsilon /\ lots # <<>>
    THEN LET lot == Head(lots)
             matched == Min(remaining, lot.qty)
             gain == RScale(matched, RSub(unit_proceeds, lot.unit_cost))
             long == IsLongTerm(trade_date, lot.date)
             left == lot.qty - matched
             rest == IF left <= LotEpsilon THEN Tail(lots)
                     ELSE <<[lot EXCEPT !.qty = left]>> \o Tail(lots)
         IN  ConsumeLots(rest, remaining - matched, unit_proceeds, trade_date,
                         IF long THEN rs ELSE RAdd(rs, gain),
                         IF long THEN RAdd(rl, gain) ELSE rl)
    ELSE [lots |-> lots, remaining |-> remaining, rs |-> rs, rl |-> rl]

\* one iteration that forgets the unmatched remainder of a sell
TaxApplyDroppingRemainder(st, tx) ==
    IF tx.quantity <= 0 \/ tx.price <= 0 THEN st
    ELSE IF tx.side = "buy"
    THEN [st EXCEPT !.lots[tx.symbol] =
              Append(@, [qty |-> tx.quantity, unit_cost |-> UnitCost(tx),
                         date |-> tx.trade_date])]
    ELSE IF tx.side # "sell" THEN st
    ELSE LET c == ConsumeLots(st.lots[tx.symbol], tx.quantity, UnitProceeds(tx),
                              tx.trade_date, st.rs, st.rl)
         IN  [lots |-> [st.lots EXCEPT ![tx.symbol] = c.lots],
              rs |-> c.rs, rl |-> c.rl]

\* one iteration of `for tx in tx_rows`
TaxApply(st, tx) ==
    IF tx.quantity <= 0 \/ tx.price <= 0 THEN st
    ELSE IF tx.side = "buy"
    THEN [st EXCEPT !.lots[tx.symbol] =
              Append(@, [qty |-> tx.quantity, unit_cost |-> UnitCost(tx),
                         date |-> tx.trade_date])]
    ELSE IF tx.side # "sell" THEN st
    ELSE LET c == ConsumeLots(st.lots[tx.symbol], tx.quantity, UnitProceeds(tx),
                              tx.trade_date, st.rs, st.rl)
             unmatched == IF c.remaining > LotEpsilon
                          THEN RScale(c.remaining, UnitProceeds(tx))
                          ELSE RZero
         IN  [lots |-> [st.lots EXCEPT ![tx.symbol] = c.lots],
              rs |-> RAdd(c.rs, unmatched), rl |-> c.rl]

TaxStart == [lots |-> [s \in Symbols |-> <<>>], rs |-> RZero, rl |-> RZero]

RECURSIVE TaxFold(_, _)
TaxFold(rows, k) ==
    IF k = 0 THEN TaxStart ELSE TaxApply(TaxFold(rows, k - 1), rows[k])

\* open lots left after the whole ledger has been processed
OpenLots(txs) == TaxFold(SortedRows(txs), Len(txs)).lots

RECURSIVE SumQty(_)
SumQty(lots) == IF lots = <<>> THEN 0 ELSE Head(lots).qty + SumQty(Tail(lots))

\* unrealized gain of the open lots of one symbol, split by age
RECURSIVE Unrealized(_, _, _, _)
Unrealized(lots, current_price, valuation_date, wantLong) ==
    IF lots = <<>> THEN RZero
    ELSE LET lot == Head(lots)
             gain == RScale(lot.qty, RSub(RInt(current_price), lot.unit_cost))
             rest == Unrealized(Tail(lots), current_price, valuation_date, wantLong)
         IN  IF IsLongTerm(valuation_date, lot.date) = wantLong
             THEN RAdd(gain, rest) ELSE rest

RECURSIVE UnrealizedAll(_, _, _, _, _)
UnrealizedAll(syms, lots, holding_prices, valuation_date, wantLong) ==
    IF syms = {} THEN RZero
    ELSE LET s == CHOOSE x \in syms : TRUE
             rest == UnrealizedAll(syms \ {s}, lots, holding_prices,
                                   valuation_date, wantLong)
         IN  IF s \notin DOMAIN holding_prices THEN rest
             ELSE RAdd(Unrealized(lots[s], holding_prices[s], valuation_date,
                                  wantLong), rest)

\* 0.30 * max(0, short) + 0.15 * max(0, long)
EstimatedTax(rs, rl) ==
    RAdd(IF RPos(rs) THEN RDivInt(RScale(3, rs), 10) ELSE RZero,
         IF RPos(rl) THEN RDivInt(RScale(15, rl), 100) ELSE RZero)

(***************************************************************************)
(* The function as a process: sort, one loop iteration per step, return.   *)
(***************************************************************************)
B1 == Tx("AAA", "buy", 10, 100, 0, 1, 1)
B2 == Tx("AAA", "buy", 10, 120, 0, 40, 2)
S1 == Tx("AAA", "sell", 15, 150, 0, 400, 3)
TaxInputs ==
    {B1, B2, S1,
     Tx("AAA", "sell", 12, 90, 5, 40, 1),
     Tx("AAA", "sell", 30, 140, 0, 405, 4),
     Tx("BBB", "buy", 11, 130, 7, 40, 2),
     Tx("BBB", "sell", 10, 160, 3, 405, 3),
     Tx("BBB", "sell", 12, 150, 0, 410, 5)}

HoldingPrices ==
    {[s \in Symbols |-> 125], [s \in {"AAA"} |-> 90]}
ValuationDates == {405, 800}

SeqsUpTo(S, n) == UNION {[1..k -> S] : k \in 0..n}

TaxIdle ==
    /\ taxPc = "idle"
    /\ transactions = <<>>
    /\ tx_rows = <<>>
    /\ taxIdx = 0
    /\ lots_by_symbol = TaxStart.lots
    /\ realized_short = RZero
    /\ realized_long = RZero
    /\ taxResult = None

TaxInit ==
    /\ taxPc = "start"
    /\ transactions \in SeqsUpTo(TaxInputs, MaxTaxTx)
    /\ tx_rows = <<>>
    /\ taxIdx = 0
    /\ lots_by_symbol = TaxStart.lots
    /\ realized_short = RZero
    /\ realized_long = RZero
    /\ taxResult = None

TaxSort ==
    /\ taxPc = "start"
    /\ tx_rows' = SortedRows(transactions)
    /\ taxPc' = "loop"
    /\ UNCHANGED <<transactions, taxIdx, lots_by_symbol, realized_short,
                   realized_long, taxResult>>

TaxLoop ==
    /\ taxPc = "loop"
    /\ taxIdx < Len(tx_rows)
    /\ LET st == TaxApply([lots |-> lots_by_symbol, rs |-> realized_short,
                           rl |-> realized_long], tx_rows[taxIdx + 1])
       IN  /\ lots_by_symbol' = st.lots
           /\ realized_short' = st.rs
           /\ realized_long' = st.rl
    /\ taxIdx' = taxIdx + 1
    /\ UNCHANGED <<taxPc, transactions, tx_rows, taxResult>>

TaxReturn ==
    /\ taxPc = "loop"
    /\ taxIdx = Len(tx_rows)
    /\ \E holding_prices \in HoldingPrices, valuation_date \in ValuationDates :
         taxResult' =
           [realized_short_term |-> Round2(realized_short),
            realized_long_term |-> Round2(realized_long),
            unrealized_short_term |->
                Round2(UnrealizedAll(Symbols, lots_by_symbol, holding_prices,
                                     valuation_date, FALSE)),
            unrealized_long_term |->
                Round2(UnrealizedAll(Symbols, lots_by_symbol, holding_prices,
                                     valuation_date, TRUE)),
            estimated_tax_payable |->
                Round2(EstimatedTax(realized_short, realized_long))]
    /\ taxPc' = "done"
    /\ UNCHANGED <<transactions, tx_rows, taxIdx, lots_by_symbol,
                   realized_short, realized_long>>

TaxNext ==
    /\ TaxSort \/ TaxLoop \/ TaxReturn
    /\ UNCHANGED <<dbVars, response, insVars, scrVars, stockVars, coreVars>>

(***************************************************************************)
(* C1.  The ledger is processed in ascending (trade_date, created_at)      *)
(* order whatever the input order, every sell consumes the open lots of    *)
(* its symbol oldest-first, each matched quantity adding                   *)
(* matched * (unit_proceeds - lot.unit_cost) to realized_long when the     *)
(* sell is at least 365 days after the lot and to realized_short           *)
(* otherwise; the ledger buy 10@100 day 1, buy 10@120 day 40, sell 15@150  *)
(* day 400 returns realized_long_term = 500, realized_short_term = 150.    *)
(***************************************************************************)
Count(seq, x) == Cardinality({i \in DOMAIN seq : seq[i] = x})
IsPermutation(a, b) ==
    /\ Len(a) = Len(b)
    /\ \A i \in DOMAIN a : Count(a, a[i]) = Count(b, a[i])

RowsAscending(rows) ==
    \A i, j \in DOMAIN rows : i < j => KeyLeq(rows[i], rows[j])

LotsOldestFirst(lots) ==
    \A i, j \in DOMAIN lots : i < j => lots[i].date <= lots[j].date

RECURSIVE QtyBefore(_, _)
QtyBefore(lots, k) == IF k <= 1 THEN 0 ELSE lots[k - 1].qty + QtyBefore(lots, k - 1)

\* quantity a sell of q takes from the k-th oldest lot when lots are
\* consumed strictly in list order
FifoMatched(lots, q, k) ==
    LET avail == q - QtyBefore(lots, k)
    IN  IF avail > LotEpsilon THEN Min(avail, lots[k].qty) ELSE 0

RECURSIVE FifoGain(_, _, _, _)
FifoGain(lots, tx, k, wantLong) ==
    IF k = 0 THEN RZero
    ELSE LET rest == FifoGain(lots, tx, k - 1, wantLong)
             g == RScale(FifoMatched(lots, tx.quantity, k),
                         RSub(UnitProceeds(tx), lots[k].unit_cost))
         IN  IF (tx.trade_date - lots[k].date >= 365) = wantLong
             THEN RAdd(rest, g) ELSE rest

FifoUnmatched(lots, tx) ==
    LET left == tx.quantity - QtyBefore(lots, Len(lots) + 1)
    IN  IF left > LotEpsilon THEN RScale(left, UnitProceeds(tx)) ELSE RZero

C1_SellStep ==
    LET tx == tx_rows[taxIdx + 1]
        lots == lots_by_symbol[tx.symbol]
    IN  (TaxLoop /\ tx.side = "sell") =>
          /\ LotsOldestFirst(lots)
          /\ realized_long' =
                RAdd(realized_long, FifoGain(lots, tx, Len(lots), TRUE))
          /\ realized_short' =
                RAdd(RAdd(realized_short, FifoGain(lots, tx, Len(lots), FALSE)),
                     FifoUnmatched(lots, tx))
          /\ \A k \in DOMAIN lots :
                FifoMatched(lots, tx.quantity, k) > 0 =>
                   \A j \in 1..(k - 1) : FifoMatched(lots, tx.quantity, j) = lots[j].qty

C1_Order ==
    taxPc # "start" =>
        /\ IsPermutation(tx_rows, transactions)
        /\ RowsAscending(tx_rows)

C1_Example ==
    (taxPc = "done" /\ IsPermutation(transactions, <<B1, B2, S1>>)) =>
        /\ taxResult.realized_long_term = 500
        /\ taxResult.realized_short_term = 150

C1_FifoLotMatching ==
    /\ [](C1_Order /\ C1_Example)
    /\ [][C1_SellStep]_vars

C1_Witness ==
    /\ taxPc = "done"
    /\ transactions = <<S1, B2, B1>>
    /\ taxResult.realized_long_term = 500
    /\ taxResult.realized_short_term = 150

(***************************************************************************)
(* Portfolio endpoints (api/v1/endpoints/portfolio.py) over the            *)
(* persistence layer.  created_at is the server clock at insert, modelled  *)
(* by the insert sequence number.                                          *)
(***************************************************************************)
Today == LongTermDays + 35

Payload(sym, side, qty, price, fee, day) ==
    [symbol |-> sym, side |-> side, quantity |-> qty, price |-> price,
     fee |-> fee, trade_date |-> day]

\* (quantity, price, fee) of the requests; trade_date 0 stands for "not given"
Orders == {<<1, 100, 0>>, <<11, 120, 5>>, <<12, 150, 0>>}
Payloads ==
    {Payload(sym, side, o[1], o[2], o[3], day) :
        sym \in Symbols, side \in {"buy", "sell"}, o \in Orders,
        day \in {0, 1, Today}}

PositionPayloads ==
    {[symbol |-> "AAA", quantity |-> 12, average_buy_price |-> 100],
     [symbol |-> "BBB", quantity |-> 1, average_buy_price |-> 100]}

DbInit ==
    /\ positions = <<>>
    /\ ledger = <<>>
    /\ response = [op |-> "none", status |-> 0]

Held(sym) == sym \in DOMAIN positions

PutPosition(sym, row) ==
    [s \in DOMAIN positions \cup {sym} |-> IF s = sym THEN row ELSE positions[s]]

DeletePosition(sym) == [s \in DOMAIN positions \ {sym} |-> positions[s]]

\* a buy whose fee is left out of the cost of an existing holding
BuyPositionWithoutFee(payload) ==
    IF ~Held(payload.symbol)
    THEN [quantity |-> payload.quantity,
          average_buy_price |->
              RNorm(payload.quantity * payload.price + payload.fee,
                    payload.quantity)]
    ELSE LET old_qty == positions[payload.symbol].quantity
             new_qty == old_qty + payload.quantity
             weighted_cost ==
                 RAdd(RScale(old_qty, positions[payload.symbol].average_buy_price),
                      RInt(payload.quantity * payload.price))
         IN  [quantity |-> new_qty,
              average_buy_price |-> RDivInt(weighted_cost, new_qty)]

\* the buy branch of add_transaction: the position row after the buy
BuyPosition(payload) ==
    IF ~Held(payload.symbol)
    THEN [quantity |-> payload.quantity,
          average_buy_price |->
              RNorm(payload.quantity * payload.price + payload.fee,
                    payload.quantity)]
    ELSE LET old_qty == positions[payload.symbol].quantity
             new_qty == old_qty + payload.quantity
             weighted_cost ==
                 RAdd(RScale(old_qty, positions[payload.symbol].average_buy_price),
                      RInt(payload.quantity * payload.price + payload.fee))
         IN  [quantity |-> new_qty,
              average_buy_price |->
                  IF new_qty > 0 THEN RDivInt(weighted_cost, new_qty)
                  ELSE positions[payload.symbol].average_buy_price]

\* a sell check that already refuses a sell of the holding plus 1e-9
SellRejectedAtEpsilon(payload) ==
    \/ ~Held(payload.symbol)
    \/ positions[payload.symbol].quantity <= 0
    \/ positions[payload.symbol].quantity + LotEpsilon <= payload.quantity

\* the two HTTP 400 conditions of the sell branch
SellRejected(payload) ==
    \/ ~Held(payload.symbol)
    \/ positions[payload.symbol].quantity <= 0
    \/ positions[payload.symbol].quantity + LotEpsilon < payload.quantity

\* the positions table after an accepted sell
SellPositions(payload) ==
    LET remaining == positions[payload.symbol].quantity - payload.quantity
    IN  IF remaining <= PositionEpsilon
        THEN DeletePosition(payload.symbol)
        ELSE [positions EXCEPT ![payload.symbol].quantity = remaining]

NewTransaction(payload) ==
    Tx(payload.symbol, payload.side, payload.quantity, payload.price, payload.fee,
       IF payload.trade_date = 0 THEN Today ELSE payload.trade_date,
       Len(ledger) + 1)

add_transaction(payload) ==
    /\ Len(ledger) < MaxLedger
    /\ IF payload.side = "buy"
       THEN /\ positions' = PutPosition(payload.symbol, BuyPosition(payload))
            /\ ledger' = Append(ledger, NewTransaction(payload))
            /\ response' = [op |-> "add_transaction", status |-> 200]
       ELSE IF SellRejected(payload)
       THEN /\ response' = [op |-> "add_transaction", status |-> 400]
            /\ UNCHANGED <<positions, ledger>>
       ELSE /\ positions' = SellPositions(payload)
            /\ ledger' = Append(ledger, NewTransaction(payload))
            /\ response' = [op |-> "add_transaction", status |-> 200]
    /\ UNCHANGED <<coreVars, stockVars, scrVars, taxVars, insVars>>

\* an upsert that also drops the transactions of the symbol
upsert_position_resetting(payload) ==
    /\ positions' = PutPosition(payload.symbol,
                        [quantity |-> payload.quantity,
                         average_buy_price |-> RInt(payload.average_buy_price)])
    /\ ledger' = SelectSeq(ledger, LAMBDA tx : tx.symbol # payload.symbol)
    /\ response' = [op |-> "upsert_position", status |-> 200]
    /\ UNCHANGED <<coreVars, stockVars, scrVars, taxVars, insVars>>

upsert_position(payload) ==
    /\ positions' = PutPosition(payload.symbol,
                        [quantity |-> payload.quantity,
                         average_buy_price |-> RInt(payload.average_buy_price)])
    /\ response' = [op |-> "upsert_position", status |-> 200]
    /\ UNCHANGED <<coreVars, stockVars, scrVars, ledger, taxVars, insVars>>

list_portfolios ==
    /\ response' = [op |-> "list_portfolios", status |-> 200,
                    positions |-> positions,
                    transaction_count |-> Len(ledger)]
    /\ UNCHANGED <<coreVars, stockVars, scrVars, dbVars, taxVars, insVars>>

RECURSIVE Reverse(_)
Reverse(seq) == IF seq = <<>> THEN <<>> ELSE Reverse(Tail(seq)) \o <<Head(seq)>>

\* order_by(trade_date.desc(), created_at.desc()).limit(limit)
list_transactions(limit) ==
    /\ response' = [op |-> "list_transactions", status |-> 200,
                    items |-> SubSeq(Reverse(SortedRows(ledger)), 1,
                                     Min(limit, Len(ledger)))]
    /\ UNCHANGED <<coreVars, stockVars, scrVars, dbVars, taxVars, insVars>>

(***************************************************************************)
(* portfolio_insights: the database reads, the concurrent gather of one    *)
(* fetch bundle per symbol, the benchmark fetch, the response.             *)
(***************************************************************************)
\* what stock_service returns for a symbol when the providers answer
QuoteOf(sym) == [price |-> IF sym = "AAA" THEN 125 ELSE 90]
ProfileOf(sym) == [sector |-> IF sym = "AAA" THEN "Technology" ELSE "Energy"]
HistoryOf(sym) == IF sym = "AAA" THEN <<120, 125>> ELSE <<95, 90>>
BenchmarkHistory == <<400, 410>>

InsIdle ==
    /\ insPc = "idle"
    /\ tx_payload = <<>>
    /\ insPositions = <<>>
    /\ bundles = <<>>
    /\ holdings = <<>>

InsightsBegin ==
    /\ insPc = "idle"
    /\ tx_payload' = SortedRows(ledger)
    /\ insPositions' = positions
    /\ bundles' = [s \in DOMAIN positions \cup
                         {ledger[i].symbol : i \in DOMAIN ledger} |-> "pending"]
    /\ holdings' = <<>>
    /\ insPc' = "gather"
    /\ UNCHANGED <<coreVars, stockVars, scrVars, dbVars, taxVars, response>>

\* quote, profile and history of one symbol all arrive
BundleReturns(sym) ==
    /\ insPc = "gather"
    /\ sym \in DOMAIN bundles
    /\ bundles[sym] = "pending"
    /\ bundles' = [bundles EXCEPT ![sym] = "ok"]
    /\ UNCHANGED <<coreVars, stockVars, scrVars, dbVars, taxVars, response, insPc, tx_payload, insPositions,
                   holdings>>

\* a gather that lets the first exception propagate out of the request
BundleRaisesAborting(sym) ==
    /\ insPc = "gather"
    /\ sym \in DOMAIN bundles
    /\ bundles[sym] = "pending"
    /\ response' = [op |-> "portfolio_insights", status |-> 503]
    /\ insPc' = "idle"
    /\ tx_payload' = <<>>
    /\ insPositions' = <<>>
    /\ bundles' = <<>>
    /\ holdings' = <<>>
    /\ UNCHANGED <<coreVars, stockVars, scrVars, dbVars, taxVars>>

\* one of the three fetches of a symbol raises
BundleRaises(sym) ==
    /\ insPc = "gather"
    /\ sym \in DOMAIN bundles
    /\ bundles[sym] = "pending"
    /\ bundles' = [bundles EXCEPT ![sym] = "failed"]
    /\ UNCHANGED <<coreVars, stockVars, scrVars, dbVars, taxVars, response, insPc, tx_payload, insPositions,
                   holdings>>

\* one entry of the holdings list (lines 238 to 257)
Holding(sym, fetched) ==
    LET current_price == IF sym \in fetched THEN QuoteOf(sym).price ELSE 0
        pos == insPositions[sym]
        value == current_price * pos.quantity
        cost == RScale(pos.quantity, pos.average_buy_price)
    IN  [symbol |-> sym,
         sector |-> IF sym \in fetched THEN ProfileOf(sym).sector ELSE None,
         quantity |-> pos.quantity,
         average_buy_price |-> pos.average_buy_price,
         current_price |-> current_price,
         market_value |-> value,
         cost_basis |-> cost,
         pnl |-> RSub(RInt(value), cost),
         history |-> IF sym \in fetched THEN HistoryOf(sym) ELSE <<>>]

\* the gather returns once every bundle has finished
GatherReturns ==
    /\ insPc = "gather"
    /\ \A s \in DOMAIN bundles : bundles[s] # "pending"
    /\ LET fetched == {s \in DOMAIN bundles : bundles[s] = "ok"}
       IN  holdings' = [s \in DOMAIN insPositions |-> Holding(s, fetched)]
    /\ insPc' = "benchmark"
    /\ UNCHANGED <<coreVars, stockVars, scrVars, dbVars, taxVars, response, tx_payload, insPositions, bundles>>

RECURSIVE SumOver(_, _)
SumOver(f, S) ==
    IF S = {} THEN 0
    ELSE LET s == CHOOSE x \in S : TRUE IN f[s] + SumOver(f, S \ {s})

\* portfolio_service.insights and the response assembled around it; the
\* locals of the request die with it
InsightsResponse(benchmark_history) ==
    LET tax == TaxFold(tx_payload, Len(tx_payload))
    IN  [op |-> "portfolio_insights", status |-> 200,
         holdings |-> holdings,
         market_value |-> SumOver([s \in DOMAIN holdings |->
                                     holdings[s].market_value], DOMAIN holdings),
         realized_short_term |-> Round2(tax.rs),
         realized_long_term |-> Round2(tax.rl),
         benchmark_points |-> Len(benchmark_history),
         transactions |-> tx_payload]

BenchmarkReturns ==
    /\ insPc = "benchmark"
    /\ response' = InsightsResponse(BenchmarkHistory)
    /\ insPc' = "idle"
    /\ tx_payload' = <<>>
    /\ insPositions' = <<>>
    /\ bundles' = <<>>
    /\ holdings' = <<>>
    /\ UNCHANGED <<coreVars, stockVars, scrVars, dbVars, taxVars>>

BenchmarkRaises ==
    /\ insPc = "benchmark"
    /\ response' = InsightsResponse(<<>>)
    /\ insPc' = "idle"
    /\ tx_payload' = <<>>
    /\ insPositions' = <<>>
    /\ bundles' = <<>>
    /\ holdings' = <<>>
    /\ UNCHANGED <<coreVars, stockVars, scrVars, dbVars, taxVars>>

portfolio_insights ==
    \/ InsightsBegin
    \/ \E sym \in Symbols : BundleReturns(sym) \/ BundleRaises(sym)
    \/ GatherReturns
    \/ BenchmarkReturns
    \/ BenchmarkRaises

(***************************************************************************)
(* ScreenerService: values, filters and scoring.                           *)
(*                                                                         *)
(* An optional number is a rational or Null, an optional flag is <<TRUE>>, *)
(* <<FALSE>> or Null.  Symbols are numbered 1..n in the order of           *)
(* clean_symbols.  Indicators derived from the price history               *)
(* (annualized_vol, max_drawdown_5y) are taken as the provider data they   *)
(* are computed from; the indicators and filters that no modelled request  *)
(* activates (RSI, beta, momentum, growth, debt, ...) are absent from the  *)
(* data, where the code reads them as None and its checks pass.            *)
(***************************************************************************)
Null == <<>>

RMul(a, b) == RNorm(a[1] * b[1], a[2] * b[2])
RAbs(a) == <<Abs(a[1]), a[2]>>
RClamp(x, lo, hi) ==
    IF RLess(x, RInt(lo)) THEN RInt(lo)
    ELSE IF RLess(RInt(hi), x) THEN RInt(hi) ELSE x

\* _normalize_rate: a value above 2 in magnitude is read as a percentage
_normalize_rate(value) ==
    IF value = Null THEN Null
    ELSE IF RLess(RInt(2), RAbs(value)) THEN RDivInt(value, 100)
    ELSE value

_normalize_percent_filter(value) ==
    IF value = Null THEN Null ELSE _normalize_rate(value)

_apply_numeric_filter(value, minimum, maximum) ==
    IF minimum # Null /\ (value = Null \/ RLess(value, minimum)) THEN FALSE
    ELSE IF maximum # Null /\ (value = Null \/ RLess(maximum, value)) THEN FALSE
    ELSE TRUE

_score_row(row) ==
    LET roe == _normalize_rate(row.roe)
        pe == row.pe
        volatility == row.annualized_volatility_percent
        max_drawdown == row.max_drawdown_5y_percent
        flags == row.advanced_flags
        quality ==
            RAdd(IF roe # Null THEN RClamp(RScale(120, roe), -8, 14) ELSE RZero,
                 IF flags.insider_buying = <<TRUE>> THEN RInt(3) ELSE RZero)
        growth ==
            IF pe # Null /\ RPos(pe)
            THEN RClamp(RMul(RSub(RInt(30), pe), <<1, 4>>), -4, 5)
            ELSE RZero
        risk ==
            RAdd(RAdd(IF volatility # Null
                      THEN RClamp(RMul(RSub(RInt(35), volatility), <<1, 4>>), -6, 8)
                      ELSE RZero,
                      IF max_drawdown # Null
                      THEN RClamp(RMul(RSub(RInt(55), max_drawdown), <<4, 25>>), -5, 7)
                      ELSE RZero),
                 IF flags.low_volatility THEN RInt(2) ELSE RZero)
        momentum == RZero
        total == RAdd(RAdd(RAdd(RAdd(RInt(28), quality), growth), risk), momentum)
    IN  [score |-> Max(0, Min(100, RoundHalfEven(total))),
         score_breakdown |->
             [quality |-> Max(0, RoundHalfEven(quality)),
              growth |-> Max(0, RoundHalfEven(growth)),
              risk |-> Max(0, RoundHalfEven(risk)),
              momentum |-> Max(0, RoundHalfEven(momentum))]]

(***************************************************************************)
(* What the providers hold for each symbol.                                *)
(***************************************************************************)
Fundamentals(market_cap, pe, roe, sector, vol, drawdown, insider, fcf) ==
    [market_cap |-> market_cap, trailing_pe |-> pe, roe |-> roe,
     sector |-> sector, annualized_vol |-> vol, max_drawdown_5y |-> drawdown,
     insider_signal |-> insider, fcf_positive_5y |-> fcf]

Listings ==
    <<Fundamentals(RInt(50000), RInt(20), <<3, 10>>, "Technology",
                   RInt(20), RInt(30), <<TRUE>>, <<TRUE>>),
      Fundamentals(RInt(800), RInt(45), RInt(35), None,
                   Null, RInt(60), <<FALSE>>, <<TRUE>>),
      Fundamentals(Null, Null, Null, "Technology",
                   RInt(40), Null, <<TRUE>>, <<FALSE>>),
      Fundamentals(RInt(50000), RInt(20), <<3, 5>>, "Energy",
                   RInt(20), RInt(30), <<TRUE>>, <<TRUE>>)>>

\* symbol s is listed like Listings[s]; later symbols repeat the four
\* listings with a larger market capitalisation
ProviderData(s) ==
    LET base == Listings[((s - 1) % Len(Listings)) + 1]
        round == (s - 1) \div Len(Listings)
    IN  IF base.market_cap = Null THEN base
        ELSE [base EXCEPT !.market_cap = RAdd(base.market_cap, RInt(round))]

(***************************************************************************)
(* Screening requests (ScreenerRequest with its defaults).                 *)
(***************************************************************************)
NoFilters ==
    [min_market_cap |-> Null, max_market_cap |-> Null, min_pe |-> Null,
     max_pe |-> Null, min_roe |-> Null, max_drawdown_5y_max |-> Null,
     magic_formula_only |-> FALSE, low_volatility_only |-> FALSE,
     insider_buying_only |-> FALSE, fcf_positive_5y |-> FALSE,
     debt_decreasing_trend |-> FALSE, roic_gt_wacc |-> FALSE,
     operating_leverage_improving |-> FALSE, min_revenue_cagr_3y |-> Null,
     min_eps_cagr_5y |-> Null, min_earnings_consistency |-> Null,
     max_volatility_percentile |-> Null, sort_by |-> "score",
     sort_order |-> "desc", limit |-> 120]

MinRoeFilters == [NoFilters EXCEPT !.min_roe = <<1, 2>>]

ValueFilters ==
    [NoFilters EXCEPT !.min_market_cap = RInt(500), !.max_pe = RInt(30),
                      !.min_roe = RInt(40), !.magic_formula_only = TRUE]

EnrichedFilters ==
    [NoFilters EXCEPT !.max_drawdown_5y_max = RInt(50),
                      !.insider_buying_only = TRUE, !.fcf_positive_5y = TRUE,
                      !.sort_by = "composite_rank", !.sort_order = "asc"]

VolatilityFilters ==
    [NoFilters EXCEPT !.max_volatility_percentile = RInt(50),
                      !.sort_by = "composite_rank"]

FilterRequests ==
    {NoFilters, MinRoeFilters, ValueFilters, EnrichedFilters, VolatilityFilters}

\* requests with one statement-based filter each, and with one of the other
\* two enrichment filters
StatementFilterRequests ==
    {[NoFilters EXCEPT !.debt_decreasing_trend = TRUE],
     [NoFilters EXCEPT !.roic_gt_wacc = TRUE],
     [NoFilters EXCEPT !.operating_leverage_improving = TRUE],
     [NoFilters EXCEPT !.min_revenue_cagr_3y = RInt(12)],
     [NoFilters EXCEPT !.min_eps_cagr_5y = <<1, 2>>],
     [NoFilters EXCEPT !.min_earnings_consistency = RInt(90)],
     [NoFilters EXCEPT !.fcf_positive_5y = TRUE],
     [NoFilters EXCEPT !.insider_buying_only = TRUE],
     [NoFilters EXCEPT !.max_drawdown_5y_max = RInt(50)]}

\* run, lines 809-825: the filters the evaluation reads
NormalizedFilters(f) ==
    [f EXCEPT !.min_roe = _normalize_percent_filter(f.min_roe),
              !.min_revenue_cagr_3y = _normalize_percent_filter(f.min_revenue_cagr_3y),
              !.min_eps_cagr_5y = _normalize_percent_filter(f.min_eps_cagr_5y)]

ResultLimit(f) == Max(10, Min(f.limit, 500))

\* statements are fetched for every request
requires_financial_filters_always(f) == TRUE

\* lines 876-886
requires_financial_filters(f) ==
    \/ f.fcf_positive_5y
    \/ f.debt_decreasing_trend
    \/ f.roic_gt_wacc
    \/ f.operating_leverage_improving
    \/ f.min_revenue_cagr_3y # Null
    \/ f.min_eps_cagr_5y # Null
    \/ f.min_earnings_consistency # Null

\* the awaits of evaluate after the bundle, in program order
NextAwait(f, after) ==
    IF after = "bundle" /\ f.max_drawdown_5y_max # Null THEN "history_5y"
    ELSE IF after \in {"bundle", "history_5y"} /\ requires_financial_filters(f)
    THEN "financials"
    ELSE IF after \in {"bundle", "history_5y", "financials"}
            /\ f.insider_buying_only
    THEN "insider"
    ELSE "return"

(***************************************************************************)
(* evaluate: the synchronous tail after the last await.                    *)
(***************************************************************************)
\* the locals an evaluation accumulates over its optional awaits
NoEnrichment ==
    [max_drawdown_5y |-> Null,
     financial_metrics |->
         [present |-> FALSE, fcf_positive_5y |-> Null,
          debt_decreasing_trend |-> Null, roic |-> Null,
          operating_leverage_improving |-> Null, revenue_cagr_3y |-> Null,
          eps_cagr_5y |-> Null, earnings_consistency_score |-> Null],
     insider |-> [signal |-> Null]]

\* what _extract_financial_metrics derives from the statements of the
\* listings, in the order of Listings
StatementMetrics ==
    <<[debt_decreasing_trend |-> <<TRUE>>, roic |-> <<1, 20>>,
       operating_leverage_improving |-> Null, revenue_cagr_3y |-> <<3, 20>>,
       eps_cagr_5y |-> <<1, 10>>, earnings_consistency_score |-> RInt(80)],
      [debt_decreasing_trend |-> <<FALSE>>, roic |-> RInt(12),
       operating_leverage_improving |-> <<TRUE>>, revenue_cagr_3y |-> Null,
       eps_cagr_5y |-> <<3, 5>>, earnings_consistency_score |-> RInt(95)],
      [debt_decreasing_trend |-> Null, roic |-> Null,
       operating_leverage_improving |-> <<FALSE>>, revenue_cagr_3y |-> <<1, 10>>,
       eps_cagr_5y |-> Null, earnings_consistency_score |-> Null],
      [debt_decreasing_trend |-> <<TRUE>>, roic |-> <<1, 5>>,
       operating_leverage_improving |-> <<TRUE>>, revenue_cagr_3y |-> <<1, 5>>,
       eps_cagr_5y |-> <<3, 5>>, earnings_consistency_score |-> RInt(90)]>>

\* lines 982-986: financial_metrics after the statements arrived
FinancialMetrics(s) ==
    LET metrics == StatementMetrics[((s - 1) % Len(StatementMetrics)) + 1]
    IN  [present |-> TRUE,
         fcf_positive_5y |-> ProviderData(s).fcf_positive_5y,
         debt_decreasing_trend |-> metrics.debt_decreasing_trend,
         roic |-> metrics.roic,
         operating_leverage_improving |-> metrics.operating_leverage_improving,
         revenue_cagr_3y |-> metrics.revenue_cagr_3y,
         eps_cagr_5y |-> metrics.eps_cagr_5y,
         earnings_consistency_score |-> metrics.earnings_consistency_score]

magic_formula(d) ==
    LET pe == d.trailing_pe
        roe == _normalize_rate(d.roe)
    IN  /\ pe # Null /\ RPos(pe) /\ RLeq(pe, RInt(25))
        /\ roe # Null /\ RLeq(<<3, 20>>, roe)

low_volatility(d) == d.annualized_vol # Null /\ RLeq(d.annualized_vol, RInt(25))

\* the elimination reasons in the order evaluate tests them
FilterOrder ==
    <<"min_market_cap", "max_pe", "min_roe", "max_drawdown_5y_max",
      "magic_formula_only", "low_volatility_only", "insider_buying_only",
      "fcf_positive_5y", "debt_decreasing_trend", "roic_gt_wacc",
      "operating_leverage_improving", "min_revenue_cagr_3y", "min_eps_cagr_5y",
      "min_earnings_consistency">>

Reasons == {FilterOrder[i] : i \in DOMAIN FilterOrder} \cup {"max_volatility_percentile"}

\* evaluate with every check passing in place of the chain of rejections
AcceptEverything(f, d, loc) == "pass"

\* the chain of `return await reject(...)`: the reason of the first
\* failing check, "pass" if none fails
RejectReason(f, d, loc) ==
    IF ~_apply_numeric_filter(d.market_cap, f.min_market_cap, f.max_market_cap)
    THEN "min_market_cap"
    ELSE IF ~_apply_numeric_filter(d.trailing_pe, f.min_pe, f.max_pe)
    THEN "max_pe"
    ELSE IF ~_apply_numeric_filter(_normalize_rate(d.roe), f.min_roe, Null)
    THEN "min_roe"
    ELSE IF ~_apply_numeric_filter(loc.max_drawdown_5y, Null, f.max_drawdown_5y_max)
    THEN "max_drawdown_5y_max"
    ELSE IF f.magic_formula_only /\ ~magic_formula(d)
    THEN "magic_formula_only"
    ELSE IF f.low_volatility_only /\ ~low_volatility(d)
    THEN "low_volatility_only"
    ELSE IF f.insider_buying_only /\ loc.insider.signal # <<TRUE>>
    THEN "insider_buying_only"
    ELSE IF f.fcf_positive_5y /\ loc.financial_metrics.fcf_positive_5y # <<TRUE>>
    THEN "fcf_positive_5y"
    ELSE IF /\ f.debt_decreasing_trend
            /\ loc.financial_metrics.debt_decreasing_trend # <<TRUE>>
    THEN "debt_decreasing_trend"
    ELSE IF /\ f.roic_gt_wacc
            /\ LET roic_value == _normalize_rate(loc.financial_metrics.roic)
               IN  roic_value = Null \/ RLeq(roic_value, <<9, 100>>)
    THEN "roic_gt_wacc"
    ELSE IF /\ f.operating_leverage_improving
            /\ loc.financial_metrics.operating_leverage_improving # <<TRUE>>
    THEN "operating_leverage_improving"
    ELSE IF /\ ~_apply_numeric_filter(loc.financial_metrics.revenue_cagr_3y,
                                      f.min_revenue_cagr_3y, Null)
            /\ f.min_revenue_cagr_3y # Null
    THEN "min_revenue_cagr_3y"
    ELSE IF /\ ~_apply_numeric_filter(loc.financial_metrics.eps_cagr_5y,
                                      f.min_eps_cagr_5y, Null)
            /\ f.min_eps_cagr_5y # Null
    THEN "min_eps_cagr_5y"
    ELSE IF /\ ~_apply_numeric_filter(loc.financial_metrics.earnings_consistency_score,
                                      f.min_earnings_consistency, Null)
            /\ f.min_earnings_consistency # Null
    THEN "min_earnings_consistency"
    ELSE "pass"

UnscoredRow(s, d, loc) ==
    [symbol |-> s,
     sector |-> d.sector,
     market_cap |-> d.market_cap,
     pe |-> d.trailing_pe,
     roe |-> _normalize_rate(d.roe),
     annualized_volatility_percent |-> d.annualized_vol,
     max_drawdown_5y_percent |-> loc.max_drawdown_5y,
     quality_flags |-> [fcf_positive_5y |-> loc.financial_metrics.fcf_positive_5y],
     advanced_flags |->
         [magic_formula |-> magic_formula(d),
          low_volatility |-> low_volatility(d),
          insider_buying |-> loc.insider.signal]]

With(r, k, v) == [x \in DOMAIN r \cup {k} |-> IF x = k THEN v ELSE r[x]]

Get(r, k) == IF k \in DOMAIN r THEN r[k] ELSE Null

EvaluatedRow(s, d, loc) ==
    LET row == UnscoredRow(s, d, loc)
        scored == _score_row(row)
    IN  With(With(row, "score", scored.score),
             "score_breakdown", scored.score_breakdown)

(***************************************************************************)
(* run: the post-pass over the rows of the finished tasks.                 *)
(***************************************************************************)
\* lines 1140-1151
WithVolatilityPercentile(rows) ==
    LET hasVol(r) == r.annualized_volatility_percent # Null
        volatility_values == SelectSeq(rows, hasVol)
        below(r) == Len(SelectSeq(volatility_values,
                        LAMBDA o : RLeq(o.annualized_volatility_percent,
                                        r.annualized_volatility_percent)))
    IN  IF volatility_values = <<>> THEN rows
        ELSE [i \in DOMAIN rows |->
                 With(rows[i], "volatility_percentile",
                      IF hasVol(rows[i])
                      THEN RNorm(100 * below(rows[i]), Len(volatility_values))
                      ELSE Null)]

\* lines 1153-1160
VolatilityFiltered(rows, f) ==
    IF f.max_volatility_percentile = Null THEN rows
    ELSE SelectSeq(rows, LAMBDA r :
             /\ Get(r, "volatility_percentile") # Null
             /\ RLeq(r.volatility_percentile, f.max_volatility_percentile))

\* the key of line 1165, (score or 0, market_cap or 0), compared as tuples
RankKeyLess(a, b) ==
    LET ma == IF a.market_cap = Null THEN RZero ELSE a.market_cap
        mb == IF b.market_cap = Null THEN RZero ELSE b.market_cap
    IN  \/ a.score < b.score
        \/ a.score = b.score /\ RLess(ma, mb)

\* rows.sort(key=(score, market_cap), reverse=True) over rows collected in
\* the iteration order of the set `done`: every descending order of the
\* rows, rows with equal keys in either order
RECURSIVE RankedOrders(_, _)
RankedOrders(q, I) ==
    IF I = {} THEN {<<>>}
    ELSE LET tops == {i \in I : \A j \in I : ~RankKeyLess(q[i], q[j])}
         IN  UNION {{<<q[i]>> \o rest : rest \in RankedOrders(q, I \ {i})} :
                    i \in tops}

\* a rank computed for each row on its own
WithCompositeRankPerRow(q) ==
    [i \in DOMAIN q |->
        With(With(q[i], "composite_rank", 1), "percentile_rank", RInt(100))]

\* lines 1166-1171
WithCompositeRank(q) ==
    [i \in DOMAIN q |->
        With(With(q[i], "composite_rank", i), "percentile_rank",
             IF Len(q) > 1 THEN RNorm(100 * (Len(q) - i), Len(q) - 1)
             ELSE RInt(100))]

SectorName(r) == IF r.sector = None THEN "Unknown" ELSE r.sector

\* lines 1173-1177
WithSectorRank(q) ==
    [i \in DOMAIN q |->
        With(q[i], "sector_rank",
             Cardinality({j \in 1..i : SectorName(q[j]) = SectorName(q[i])}))]

_sort_value(row, sort_by) ==
    IF sort_by \in {"score", "ai_score"} THEN row.score
    ELSE IF sort_by = "composite_rank" THEN row.composite_rank
    ELSE -10000000

\* the order of lines 1179-1182 between two rows
SortsBefore(x, y, f) ==
    LET sort_desc == f.sort_order # "asc"
        key(r) == IF f.sort_by = "composite_rank" THEN r.composite_rank
                  ELSE _sort_value(r, f.sort_by)
    IN  IF sort_desc THEN key(x) > key(y) ELSE key(x) < key(y)

\* list.sort is stable, also with reverse=True: x is placed behind every
\* element that does not sort after it
RECURSIVE InsertStable(_, _, _)
InsertStable(q, x, f) ==
    IF q = <<>> THEN <<x>>
    ELSE IF SortsBefore(x, Head(q), f) THEN <<x>> \o q
    ELSE <<Head(q)>> \o InsertStable(Tail(q), x, f)

\* lines 1179-1182
RECURSIVE FinalSort(_, _)
FinalSort(q, f) ==
    IF q = <<>> THEN <<>>
    ELSE InsertStable(FinalSort(SubSeq(q, 1, Len(q) - 1), f), q[Len(q)], f)

RECURSIVE AscendingSeq(_)
AscendingSeq(S) ==
    IF S = {} THEN <<>>
    ELSE LET m == CHOOSE x \in S : \A y \in S : x <= y
         IN  <<m>> \o AscendingSeq(S \ {m})

\* lines 1129-1138: the rows of the finished tasks that returned one
CollectedRows(results, finished) ==
    LET withRow == {s \in finished : results[s] # Null}
        order == AscendingSeq(withRow)
    IN  [i \in DOMAIN order |-> results[order[i]][1]]

\* lines 1140-1182: every outcome of the post-pass, as the rows in their
\* final order and the number of rows the volatility filter removed
PostPass(results, finished, f) ==
    LET collected == CollectedRows(results, finished)
        kept == VolatilityFiltered(WithVolatilityPercentile(collected), f)
    IN  {[rows |-> FinalSort(WithSectorRank(WithCompositeRank(ranked)), f),
          removed |-> Len(collected) - Len(kept)] :
         ranked \in RankedOrders(kept, DOMAIN kept)}

\* dict(elimination_counts) of a defaultdict: the reasons ever incremented
AsDict(counts) == [r \in {x \in DOMAIN counts : counts[x] > 0} |-> counts[r]]

\* the result that counts every requested symbol as evaluated
ScreenerResultOfAllTasks(final_rows, finished, unfinished, symbols, f, counts) ==
    [items |-> SubSeq(final_rows, 1, Min(Len(final_rows), ResultLimit(f))),
     meta |->
        [timed_out |-> unfinished # {},
         partial |-> unfinished # {},
         evaluated_symbols |-> Len(symbols),
         requested_symbols |-> Len(symbols),
         total_matches |-> Len(final_rows),
         sort_by |-> f.sort_by,
         sort_order |-> IF f.sort_order # "asc" THEN "desc" ELSE "asc",
         elimination_counts |-> AsDict(counts)]]

\* lines 1190-1210
ScreenerResult(final_rows, finished, unfinished, symbols, f, counts) ==
    [items |-> SubSeq(final_rows, 1, Min(Len(final_rows), ResultLimit(f))),
     meta |->
        [timed_out |-> unfinished # {},
         partial |-> unfinished # {},
         evaluated_symbols |-> Cardinality(finished),
         requested_symbols |-> Len(symbols),
         total_matches |-> Len(final_rows),
         sort_by |-> f.sort_by,
         sort_order |-> IF f.sort_order # "asc" THEN "desc" ELSE "asc",
         elimination_counts |-> AsDict(counts)]]

(***************************************************************************)
(* ScreenerService.run as a process: one task per symbol on one event      *)
(* loop.  A step of a task runs from one await to the next; the batch      *)
(* deadline and the provider outcomes are the environment.  The semaphore  *)
(* is asyncio.Semaphore: release hands the permit to the oldest live       *)
(* waiter, a cancelled waiter gives a permit it was handed back.           *)
(* Task.cancel makes the task's pending await raise CancelledError, which  *)
(* `except Exception` does not catch.  elimination_lock is never held      *)
(* across an await, so reject never suspends.                              *)
(***************************************************************************)
SemaphorePermits == 8

Behaviours == {"answers", "hangs", "fails"}

BundleFetches == {"quote", "profile", "history"}

\* the symbol numbers of the largest batch
SymbolIds == 1..Max(MaxSymbols, SemaphorePermits + ExtraSymbols)

Tasks == DOMAIN taskPc

InFlightStates ==
    {"bundle", "timeout_cleanup", "cancel_cleanup", "history_5y",
     "financials", "insider"}

InFlight(s) == taskPc[s] \in InFlightStates

Finished(s) == taskPc[s] \in {"done", "cancelled"}

ScreenerIdle ==
    /\ scrPc = "idle"
    /\ filters = NoFilters
    /\ clean_symbols = <<>>
    /\ upstream = <<>>
    /\ taskPc = <<>>
    /\ enrichment = <<>>
    /\ taskResult = <<>>
    /\ permits = 0
    /\ waiters = <<>>
    /\ orphans = <<>>
    /\ elimination_counts = [r \in Reasons |-> 0]
    /\ done = {}
    /\ pending = {}
    /\ scrRows = <<>>
    /\ scrResult = Null

\* run up to its suspension in asyncio.wait, lines 808-1127
ScreenerStarted(n, f, up) ==
    /\ scrPc = "wait"
    /\ filters = f
    /\ clean_symbols = [i \in 1..n |-> i]
    /\ upstream = up
    /\ taskPc = [s \in 1..n |-> "created"]
    /\ enrichment = [s \in 1..n |-> NoEnrichment]
    /\ taskResult = [s \in 1..n |-> Null]
    /\ permits = SemaphorePermits
    /\ waiters = <<>>
    /\ orphans = [s \in 1..n |-> 0]
    /\ elimination_counts = [r \in Reasons |-> 0]
    /\ done = {}
    /\ pending = {}
    /\ scrRows = <<>>
    /\ scrResult = Null

\* a batch larger than the semaphore: one symbol hangs, one fails
CrowdedUpstream(n) ==
    [s \in 1..n |-> IF s = 1 THEN "hangs" ELSE IF s = 2 THEN "fails" ELSE "answers"]

ScreenerInit ==
    \/ \E n \in 1..MaxSymbols, f \in FilterRequests :
         \E up \in [1..n -> Behaviours] : ScreenerStarted(n, f, up)
    \/ ScreenerStarted(SemaphorePermits + ExtraSymbols, NoFilters,
                       CrowdedUpstream(SemaphorePermits + ExtraSymbols))
    \/ \E f \in StatementFilterRequests, up \in Behaviours :
         ScreenerStarted(1, f, [s \in {1} |-> up])

\* Semaphore.release after task s ended in state `final`
Released(s, final) ==
    LET ended == [taskPc EXCEPT ![s] = final]
    IN  IF waiters # <<>>
        THEN /\ taskPc' = [ended EXCEPT ![Head(waiters)] = "granted"]
             /\ waiters' = Tail(waiters)
             /\ permits' = permits
        ELSE /\ taskPc' = ended
             /\ permits' = permits + 1
             /\ waiters' = waiters

\* the task enters the body without acquiring a permit
TaskStartsWithoutSemaphore(s) ==
    /\ scrPc = "wait"
    /\ s \in Tasks
    /\ taskPc[s] = "created"
    /\ \A t \in Tasks : t < s => taskPc[t] # "created"
    /\ taskPc' = [taskPc EXCEPT ![s] = "bundle"]
    /\ UNCHANGED <<portfolioVars, stockVars, coreVars>>
    /\ UNCHANGED <<scrPc, filters, clean_symbols, upstream, enrichment,
                   taskResult, permits, waiters, orphans, elimination_counts,
                   done, pending, scrRows, scrResult>>

\* `async with semaphore`, line 903
TaskStarts(s) ==
    /\ scrPc = "wait"
    /\ s \in Tasks
    /\ taskPc[s] = "created"
    /\ \A t \in Tasks : t < s => taskPc[t] # "created"
    /\ IF permits > 0 /\ waiters = <<>>
       THEN /\ permits' = permits - 1
            /\ taskPc' = [taskPc EXCEPT ![s] = "bundle"]
            /\ waiters' = waiters
       ELSE /\ permits' = permits
            /\ taskPc' = [taskPc EXCEPT ![s] = "acquire"]
            /\ waiters' = Append(waiters, s)
    /\ UNCHANGED <<portfolioVars, stockVars, coreVars>>
    /\ UNCHANGED <<scrPc, filters, clean_symbols, upstream, enrichment,
                   taskResult, orphans, elimination_counts, done, pending,
                   scrRows, scrResult>>

\* a waiter handed a permit enters the body, lines 903-915
PermitTaken(s) ==
    /\ scrPc = "wait"
    /\ s \in Tasks
    /\ taskPc[s] = "granted"
    /\ taskPc' = [taskPc EXCEPT ![s] = "bundle"]
    /\ UNCHANGED <<portfolioVars, stockVars, coreVars>>
    /\ UNCHANGED <<scrPc, filters, clean_symbols, upstream, enrichment,
                   taskResult, permits, waiters, orphans, elimination_counts,
                   done, pending, scrRows, scrResult>>

\* evaluate from the completion of the await `after`, holding locals `loc`,
\* up to its next await or its return, lines 927-1123
Proceed(s, after, loc) ==
    LET f == NormalizedFilters(filters)
        next == NextAwait(f, after)
        reason == RejectReason(f, ProviderData(s), loc)
    IN  /\ enrichment' = [enrichment EXCEPT ![s] = loc]
        /\ IF next # "return"
           THEN /\ taskPc' = [taskPc EXCEPT ![s] = next]
                /\ UNCHANGED <<taskResult, permits, waiters, elimination_counts>>
           ELSE /\ elimination_counts' =
                     IF reason = "pass" THEN elimination_counts
                     ELSE [elimination_counts EXCEPT ![reason] = @ + 1]
                /\ taskResult' =
                     [taskResult EXCEPT ![s] =
                         IF reason = "pass"
                         THEN <<EvaluatedRow(s, ProviderData(s), loc)>>
                         ELSE Null]
                /\ Released(s, "done")
        /\ UNCHANGED <<portfolioVars, stockVars, coreVars>>
        /\ UNCHANGED <<scrPc, filters, clean_symbols, upstream, orphans, done,
                       pending, scrRows, scrResult>>

Awaiting(s, what) == scrPc = "wait" /\ s \in Tasks /\ taskPc[s] = what

\* line 915 returns quote, profile, history
FetchesReturn(s) ==
    /\ Awaiting(s, "bundle")
    /\ upstream[s] = "answers"
    /\ Proceed(s, "bundle", enrichment[s])

\* lines 916-918: wait_for has cancelled the three fetches
FetchesTimeOut(s) ==
    /\ Awaiting(s, "bundle")
    /\ upstream[s] = "hangs"
    /\ taskPc' = [taskPc EXCEPT ![s] = "timeout_cleanup"]
    /\ UNCHANGED <<portfolioVars, stockVars, coreVars>>
    /\ UNCHANGED <<scrPc, filters, clean_symbols, upstream, enrichment,
                   taskResult, permits, waiters, orphans, elimination_counts,
                   done, pending, scrRows, scrResult>>

\* lines 918-919
TimeoutCleanupReturns(s) ==
    /\ Awaiting(s, "timeout_cleanup")
    /\ Released(s, "done")
    /\ UNCHANGED <<portfolioVars, stockVars, coreVars>>
    /\ UNCHANGED <<scrPc, filters, clean_symbols, upstream, enrichment,
                   taskResult, orphans, elimination_counts, done, pending,
                   scrRows, scrResult>>

\* the failure is counted as an elimination
FetchRaisesCounted(s) ==
    /\ Awaiting(s, "bundle")
    /\ upstream[s] = "fails"
    /\ \E left \in 0..(Cardinality(BundleFetches) - 1) :
         orphans' = [orphans EXCEPT ![s] = left]
    /\ elimination_counts' =
         [elimination_counts EXCEPT ![FilterOrder[1]] = @ + 1]
    /\ Released(s, "done")
    /\ UNCHANGED <<portfolioVars, stockVars, coreVars>>
    /\ UNCHANGED <<scrPc, filters, clean_symbols, upstream, enrichment,
                   taskResult, done, pending, scrRows, scrResult>>

\* lines 924-925: one fetch raised; gather leaves the fetches that have not
\* finished yet running, nothing cancels or awaits them
FetchRaises(s) ==
    /\ Awaiting(s, "bundle")
    /\ upstream[s] = "fails"
    /\ \E left \in 0..(Cardinality(BundleFetches) - 1) :
         orphans' = [orphans EXCEPT ![s] = left]
    /\ Released(s, "done")
    /\ UNCHANGED <<portfolioVars, stockVars, coreVars>>
    /\ UNCHANGED <<scrPc, filters, clean_symbols, upstream, enrichment,
                   taskResult, elimination_counts, done, pending, scrRows,
                   scrResult>>

\* a fetch left behind by a failed bundle completes unobserved
OrphanFinishes(s) ==
    /\ s \in Tasks
    /\ orphans[s] > 0
    /\ orphans' = [orphans EXCEPT ![s] = @ - 1]
    /\ UNCHANGED <<portfolioVars, stockVars, coreVars>>
    /\ UNCHANGED <<scrPc, filters, clean_symbols, upstream, taskPc, enrichment,
                   taskResult, permits, waiters, elimination_counts, done,
                   pending, scrRows, scrResult>>

\* lines 963-966
History5yReturns(s) ==
    /\ Awaiting(s, "history_5y")
    /\ Proceed(s, "history_5y",
               [enrichment[s] EXCEPT !.max_drawdown_5y =
                                         ProviderData(s).max_drawdown_5y])

\* lines 967-968: timeout or provider error
History5yFails(s) ==
    /\ Awaiting(s, "history_5y")
    /\ Proceed(s, "history_5y", [enrichment[s] EXCEPT !.max_drawdown_5y = Null])

\* lines 982-986
FinancialsReturns(s) ==
    /\ Awaiting(s, "financials")
    /\ Proceed(s, "financials",
               [enrichment[s] EXCEPT !.financial_metrics = FinancialMetrics(s)])

\* lines 987-988
FinancialsFails(s) ==
    /\ Awaiting(s, "financials")
    /\ Proceed(s, "financials",
               [enrichment[s] EXCEPT !.financial_metrics =
                                         NoEnrichment.financial_metrics])

\* lines 1008-1011
InsiderReturns(s) ==
    /\ Awaiting(s, "insider")
    /\ Proceed(s, "insider",
               [enrichment[s] EXCEPT !.insider =
                                         [signal |-> ProviderData(s).insider_signal]])

\* lines 1012-1013
InsiderFails(s) ==
    /\ Awaiting(s, "insider")
    /\ Proceed(s, "insider", [enrichment[s] EXCEPT !.insider = NoEnrichment.insider])

(***************************************************************************)
(* The batch deadline and the return of run.                               *)
(***************************************************************************)
FinishedTasks == {s \in Tasks : Finished(s)}

\* asyncio.wait returns with every task done, lines 1127-1210
AllTasksDone ==
    /\ scrPc = "wait"
    /\ FinishedTasks = Tasks
    /\ \E out \in PostPass(taskResult, Tasks, NormalizedFilters(filters)) :
         LET counts == [elimination_counts EXCEPT
                            !["max_volatility_percentile"] = @ + out.removed]
         IN  /\ scrRows' = out.rows
             /\ elimination_counts' = counts
             /\ scrResult' = ScreenerResult(out.rows, Tasks, {}, clean_symbols,
                                            filters, counts)
    /\ done' = Tasks
    /\ pending' = {}
    /\ scrPc' = "returned"
    /\ UNCHANGED <<portfolioVars, stockVars, coreVars>>
    /\ UNCHANGED <<filters, clean_symbols, upstream, taskPc, enrichment,
                   taskResult, permits, waiters, orphans>>

\* asyncio.wait returns on its timeout, lines 1127-1188: the scrRows of the
\* finished tasks are ranked, the other tasks are cancelled, which cancels
\* the futures of the semaphore's waiters, and run suspends in gather
DeadlineElapses ==
    /\ scrPc = "wait"
    /\ \A s \in Tasks : taskPc[s] # "created"
    /\ FinishedTasks # Tasks
    /\ \E out \in PostPass(taskResult, FinishedTasks, NormalizedFilters(filters)) :
         /\ scrRows' = out.rows
         /\ elimination_counts' =
              [elimination_counts EXCEPT
                   !["max_volatility_percentile"] = @ + out.removed]
    /\ done' = FinishedTasks
    /\ pending' = Tasks \ FinishedTasks
    /\ waiters' = <<>>
    /\ scrPc' = "gather_pending"
    /\ UNCHANGED <<portfolioVars, stockVars, coreVars>>
    /\ UNCHANGED <<filters, clean_symbols, upstream, taskPc, enrichment,
                   taskResult, permits, orphans, scrResult>>

\* the cancellations are delivered in the order of `for task in pending`;
\* the order shows in no result, the model takes the ascending one
NextCancelled(s) ==
    /\ scrPc = "gather_pending"
    /\ s \in pending
    /\ \A t \in pending : t < s => taskPc[t] = "cancelled"

\* CancelledError inside Semaphore.acquire: a permit already handed to the
\* waiter goes back
WaiterCancelled(s) ==
    /\ NextCancelled(s)
    /\ taskPc[s] \in {"acquire", "granted"}
    /\ permits' = IF taskPc[s] = "granted" THEN permits + 1 ELSE permits
    /\ taskPc' = [taskPc EXCEPT ![s] = "cancelled"]
    /\ UNCHANGED <<portfolioVars, stockVars, coreVars>>
    /\ UNCHANGED <<scrPc, filters, clean_symbols, upstream, enrichment,
                   taskResult, waiters, orphans, elimination_counts, done,
                   pending, scrRows, scrResult>>

\* lines 920-922: the three fetches are cancelled and awaited
BundleCancelled(s) ==
    /\ NextCancelled(s)
    /\ taskPc[s] = "bundle"
    /\ taskPc' = [taskPc EXCEPT ![s] = "cancel_cleanup"]
    /\ UNCHANGED <<portfolioVars, stockVars, coreVars>>
    /\ UNCHANGED <<scrPc, filters, clean_symbols, upstream, enrichment,
                   taskResult, permits, waiters, orphans, elimination_counts,
                   done, pending, scrRows, scrResult>>

\* line 923 and the exit of `async with semaphore`
CancelCleanupReturns(s) ==
    /\ NextCancelled(s)
    /\ taskPc[s] = "cancel_cleanup"
    /\ Released(s, "cancelled")
    /\ UNCHANGED <<portfolioVars, stockVars, coreVars>>
    /\ UNCHANGED <<scrPc, filters, clean_symbols, upstream, enrichment,
                   taskResult, orphans, elimination_counts, done, pending,
                   scrRows, scrResult>>

\* CancelledError at the await of line 918, 963, 982 or 1008 leaves evaluate
EvaluationCancelled(s) ==
    /\ NextCancelled(s)
    /\ taskPc[s] \in {"timeout_cleanup", "history_5y", "financials", "insider"}
    /\ Released(s, "cancelled")
    /\ UNCHANGED <<portfolioVars, stockVars, coreVars>>
    /\ UNCHANGED <<scrPc, filters, clean_symbols, upstream, enrichment,
                   taskResult, orphans, elimination_counts, done, pending,
                   scrRows, scrResult>>

\* run returns without awaiting the cancelled tasks
RunReturnsAtOnce ==
    /\ scrPc = "gather_pending"
    /\ scrResult' = ScreenerResult(scrRows, done, pending, clean_symbols, filters,
                                   elimination_counts)
    /\ scrPc' = "returned"
    /\ UNCHANGED <<portfolioVars, stockVars, coreVars>>
    /\ UNCHANGED <<filters, clean_symbols, upstream, taskPc, enrichment,
                   taskResult, permits, waiters, orphans, elimination_counts,
                   done, pending, scrRows>>

\* gather(*pending, return_exceptions=True) returns, lines 1188-1210
RunReturns ==
    /\ scrPc = "gather_pending"
    /\ \A s \in pending : Finished(s)
    /\ scrResult' = ScreenerResult(scrRows, done, pending, clean_symbols, filters,
                                   elimination_counts)
    /\ scrPc' = "returned"
    /\ UNCHANGED <<portfolioVars, stockVars, coreVars>>
    /\ UNCHANGED <<filters, clean_symbols, upstream, taskPc, enrichment,
                   taskResult, permits, waiters, orphans, elimination_counts,
                   done, pending, scrRows>>

ScreenerNext ==
    \/ \E s \in SymbolIds : TaskStarts(s)
    \/ \E s \in SymbolIds : PermitTaken(s)
    \/ \E s \in SymbolIds : FetchesReturn(s)
    \/ \E s \in SymbolIds : FetchesTimeOut(s)
    \/ \E s \in SymbolIds : TimeoutCleanupReturns(s)
    \/ \E s \in SymbolIds : FetchRaises(s)
    \/ \E s \in SymbolIds : OrphanFinishes(s)
    \/ \E s \in SymbolIds : History5yReturns(s)
    \/ \E s \in SymbolIds : History5yFails(s)
    \/ \E s \in SymbolIds : FinancialsReturns(s)
    \/ \E s \in SymbolIds : FinancialsFails(s)
    \/ \E s \in SymbolIds : InsiderReturns(s)
    \/ \E s \in SymbolIds : InsiderFails(s)
    \/ \E s \in SymbolIds : WaiterCancelled(s)
    \/ \E s \in SymbolIds : BundleCancelled(s)
    \/ \E s \in SymbolIds : CancelCleanupReturns(s)
    \/ \E s \in SymbolIds : EvaluationCancelled(s)
    \/ AllTasksDone
    \/ DeadlineElapses
    \/ RunReturns

InitScreener == TaxIdle /\ DbInit /\ InsIdle /\ ScreenerInit /\ StockIdle /\ CoreIdle

SpecScreener == InitScreener /\ [][ScreenerNext]_vars

(***************************************************************************)
(* The specifications.                                                     *)
(***************************************************************************)
AddTransaction == \E payload \in Payloads : add_transaction(payload)

UpsertPosition == \E payload \in PositionPayloads : upsert_position(payload)
ListTransactions == \E limit \in {1, 200} : list_transactions(limit)

\* the requests of the full endpoint specification
CorePayloads ==
    {Payload("AAA", "buy", 12, 150, 0, 1),
     Payload("AAA", "sell", 12, 150, 0, Today),
     Payload("AAA", "sell", 1, 100, 0, 1),
     Payload("BBB", "buy", 11, 120, 5, 0)}

\* portfolio_insights works on the rows its session loaded before its first
\* await and the other endpoints never read its locals, so their steps
\* commute with its steps; the other requests are taken between two
\* insights requests
PortfolioNext ==
    \/ insPc = "idle" /\ \E payload \in CorePayloads : add_transaction(payload)
    \/ insPc = "idle" /\ UpsertPosition
    \/ insPc = "idle" /\ list_portfolios
    \/ insPc = "idle" /\ ListTransactions
    \/ portfolio_insights

InitTax == TaxInit /\ DbInit /\ InsIdle /\ ScreenerIdle /\ StockIdle /\ CoreIdle

InitPortfolio == TaxIdle /\ DbInit /\ InsIdle /\ ScreenerIdle /\ StockIdle /\ CoreIdle

SpecTax == InitTax /\ [][TaxNext]_vars

SpecTransactions == InitPortfolio /\ [][AddTransaction]_vars

SpecPortfolio == InitPortfolio /\ [][PortfolioNext]_vars

(***************************************************************************)
(* C2.  After any sequence of accepted add_transaction calls the stored    *)
(* position quantity of every symbol equals the total quantity of the      *)
(* open FIFO lots that _tax_gain_calculation derives from the same         *)
(* transactions, and the position is absent exactly when no open lot       *)
(* remains.                                                                *)
(***************************************************************************)
OpenQuantity(sym) == SumQty(OpenLots(ledger)[sym])

C2_ViewsConsistent ==
    \A sym \in Symbols :
        /\ Held(sym) <=> OpenLots(ledger)[sym] # <<>>
        /\ Held(sym) => positions[sym].quantity = OpenQuantity(sym)

(***************************************************************************)
(* C9.  The ledger is append-only: an accepted add_transaction appends     *)
(* exactly one transaction, and no step of any endpoint changes or removes *)
(* a transaction already stored.                                           *)
(***************************************************************************)
IsPrefix(a, b) == Len(a) <= Len(b) /\ SubSeq(b, 1, Len(a)) = a

AcceptedAddTransaction ==
    /\ \E payload \in Payloads : add_transaction(payload)
    /\ response'.status = 200

C9_Step ==
    /\ IsPrefix(ledger, ledger')
    /\ Len(ledger') <= Len(ledger) + 1
    /\ AcceptedAddTransaction <=> Len(ledger') = Len(ledger) + 1

C9_AppendOnly == [][C9_Step]_vars

C9_Witness ==
    /\ Len(ledger) >= 2
    /\ response.op = "portfolio_insights"
    /\ DOMAIN positions # {ledger[i].symbol : i \in DOMAIN ledger}

(***************************************************************************)
(* C10 as stated: every stored position has a quantity above 1e-8.         *)
(***************************************************************************)
C10_QuantityAboveEpsilon ==
    \A sym \in DOMAIN positions : positions[sym].quantity > PositionEpsilon

(***************************************************************************)
(* C10, amended.  Every stored position has a quantity above 0, and above  *)
(* 1e-8 when a sell left it: a sell that brings the remaining quantity to  *)
(* at most 1e-8 deletes the position, a sell that leaves more only reduces *)
(* the quantity and keeps average_buy_price, and a buy sets                *)
(* average_buy_price to                                                    *)
(* (old_qty*old_avg + qty*price + fee) / (old_qty + qty).                  *)
(***************************************************************************)
C10_Step ==
    Len(ledger') = Len(ledger) + 1 =>
        LET tx == ledger'[Len(ledger')]
            sym == tx.symbol
            old_qty == IF Held(sym) THEN positions[sym].quantity ELSE 0
            old_avg == IF Held(sym) THEN positions[sym].average_buy_price
                       ELSE RZero
        IN  /\ \A other \in Symbols \ {sym} :
                  /\ (other \in DOMAIN positions') = Held(other)
                  /\ Held(other) => positions'[other] = positions[other]
            /\ tx.side = "sell" =>
                  IF old_qty - tx.quantity <= PositionEpsilon
                  THEN sym \notin DOMAIN positions'
                  ELSE /\ sym \in DOMAIN positions'
                       /\ positions'[sym].quantity = old_qty - tx.quantity
                       /\ positions'[sym].quantity > PositionEpsilon
                       /\ positions'[sym].average_buy_price = old_avg
            /\ tx.side = "buy" =>
                  /\ sym \in DOMAIN positions'
                  /\ positions'[sym].quantity = old_qty + tx.quantity
                  /\ RScale(old_qty + tx.quantity,
                            positions'[sym].average_buy_price)
                       = RAdd(RScale(old_qty, old_avg),
                              RInt(tx.quantity * tx.price + tx.fee))

C10_PositionAccounting ==
    /\ [](\A sym \in DOMAIN positions : positions[sym].quantity > 0)
    /\ [][C10_Step]_vars

\* a buy with a fee on top of a holding, then a sell that leaves 11 units
C10_Witness ==
    /\ Len(ledger) = 3
    /\ ledger[1].side = "buy" /\ ledger[2].side = "buy" /\ ledger[3].side = "sell"
    /\ ledger[1].symbol = "AAA" /\ ledger[2].symbol = "AAA" /\ ledger[3].symbol = "AAA"
    /\ ledger[2].fee > 0
    /\ Held("AAA")
    /\ positions["AAA"].quantity = 11
    /\ positions["AAA"].average_buy_price[2] > 1

(***************************************************************************)
(* C8.  portfolio_insights starts the fetch bundles of all symbols         *)
(* together, and a failure of any of them, or of the benchmark history,    *)
(* never aborts the request: a failed symbol gets price 0, an empty        *)
(* profile and an empty history, the other symbols keep what was fetched,  *)
(* and the insights are returned.                                          *)
(***************************************************************************)
\* every symbol has its bundle in flight from the start of the gather on
C8_Gathering ==
    insPc = "gather" =>
        DOMAIN bundles =
            DOMAIN insPositions \cup {tx_payload[i].symbol : i \in DOMAIN tx_payload}

C8_Answered == response.op = "portfolio_insights" => response.status = 200

C8_Step ==
    /\ (insPc = "gather" /\ insPc' = "benchmark") =>
          /\ DOMAIN holdings' = DOMAIN insPositions
          /\ \A sym \in DOMAIN holdings' :
                /\ holdings'[sym].quantity = insPositions[sym].quantity
                /\ bundles[sym] = "failed" =>
                      /\ holdings'[sym].current_price = 0
                      /\ holdings'[sym].market_value = 0
                      /\ holdings'[sym].sector = None
                      /\ holdings'[sym].history = <<>>
                /\ bundles[sym] = "ok" =>
                      /\ holdings'[sym].current_price = QuoteOf(sym).price
                      /\ holdings'[sym].sector = ProfileOf(sym).sector
                      /\ holdings'[sym].history = HistoryOf(sym)
    /\ (insPc = "gather" /\ bundles' # bundles) =>
          /\ insPc' = "gather"
          /\ response' = response
          /\ \E sym \in DOMAIN bundles :
                /\ bundles[sym] = "pending"
                /\ bundles'[sym] \in {"ok", "failed"}
                /\ \A other \in DOMAIN bundles \ {sym} :
                      bundles'[other] = bundles[other]
    /\ (insPc = "benchmark" /\ insPc' = "idle") =>
          /\ response'.op = "portfolio_insights"
          /\ response'.status = 200
          /\ response'.holdings = holdings
          /\ response'.transactions = tx_payload

InFlightTasks == {s \in Tasks : InFlight(s)}

PermitHolders == {s \in Tasks : InFlight(s) \/ taskPc[s] = "granted"}

C3_AtMostEightInFlight ==
    /\ Cardinality(InFlightTasks) <= SemaphorePermits
    /\ permits + Cardinality(PermitHolders) = SemaphorePermits
    /\ \A s \in Tasks :
         ~InFlight(s) /\ ~Finished(s) => taskPc[s] \in {"created", "acquire", "granted"}
    /\ \A s \in Tasks :
         scrPc = "wait" /\ taskPc[s] = "acquire"
            => Cardinality(PermitHolders) = SemaphorePermits

\* eight evaluations in flight while a ninth task queues for a permit
C3_Witness ==
    /\ Cardinality(InFlightTasks) = SemaphorePermits
    /\ \E s \in Tasks : taskPc[s] = "acquire"
    /\ Len(clean_symbols) > SemaphorePermits

(***************************************************************************)
(* C4.  When run returns after the deadline elapsed with unfinished tasks, *)
(* meta.timed_out and meta.partial are True, evaluated_symbols is below    *)
(* requested_symbols, and every item is the complete row, with score,      *)
(* score_breakdown, composite_rank, percentile_rank and sector_rank, of a  *)
(* task that completed before the deadline.  When every task finished,     *)
(* timed_out and partial are False and evaluated_symbols equals            *)
(* requested_symbols.                                                      *)
(***************************************************************************)
CancelledTasks == {s \in Tasks : taskPc[s] = "cancelled"}

CompletedTasks == {s \in Tasks : taskPc[s] = "done"}

RowFields ==
    {"symbol", "sector", "market_cap", "pe", "roe",
     "annualized_volatility_percent", "max_drawdown_5y_percent",
     "quality_flags", "advanced_flags", "score", "score_breakdown",
     "composite_rank", "percentile_rank", "sector_rank"}

\* the item is the row its task returned, with the fields of the post-pass
CompleteRowOf(item, s) ==
    /\ RowFields \subseteq DOMAIN item
    /\ taskResult[s] # Null
    /\ \A k \in DOMAIN taskResult[s][1] : item[k] = taskResult[s][1][k]
    /\ item.score \in 0..100
    /\ DOMAIN item.score_breakdown = {"quality", "growth", "risk", "momentum"}
    /\ item.composite_rank \in 1..Len(scrResult.items)
    /\ item.sector_rank \in 1..item.composite_rank

C4_TimeoutPartiality ==
    scrPc = "returned" =>
        LET meta == scrResult.meta
            items == scrResult.items
        IN  /\ CancelledTasks # {} =>
                /\ meta.timed_out /\ meta.partial
                /\ meta.evaluated_symbols < meta.requested_symbols
            /\ CancelledTasks = {} =>
                /\ ~meta.timed_out /\ ~meta.partial
                /\ meta.evaluated_symbols = meta.requested_symbols
            /\ meta.evaluated_symbols = Cardinality(CompletedTasks)
            /\ meta.requested_symbols = Len(clean_symbols)
            /\ \A i \in DOMAIN items :
                 /\ items[i].symbol \in CompletedTasks
                 /\ CompleteRowOf(items[i], items[i].symbol)
            /\ \A i, j \in DOMAIN items :
                 items[i].symbol = items[j].symbol => i = j

\* a partial result: a task was cancelled at the deadline, another one had
\* completed and its row is returned
C4_Witness ==
    /\ scrPc = "returned"
    /\ CancelledTasks # {}
    /\ scrResult.meta.timed_out
    /\ Len(scrResult.items) >= 2
    /\ scrResult.meta.evaluated_symbols = Cardinality(CompletedTasks)

(***************************************************************************)
(* C5.  After the deadline every pending task is cancelled and awaited:    *)
(* when run returns no task is running, all 8 permits are back, and a      *)
(* cancelled task has neither a row among the items nor a count among the  *)
(* elimination counts; run returns its result dict.  Between the deadline  *)
(* and the return no pending task completes normally: each is cancelled or *)
(* suspended at an await where the cancellation is delivered.              *)
(***************************************************************************)
TotalCount(counts) == SumOver(counts, DOMAIN counts)

\* the finished evaluations that went through the filters and were rejected
RejectedTasks ==
    {s \in CompletedTasks : upstream[s] = "answers" /\ taskResult[s] = Null}

\* the completed tasks that returned a row
RowTasks == {s \in CompletedTasks : taskResult[s] # Null}

C5_Returned ==
    scrPc = "returned" =>
        /\ DOMAIN scrResult = {"items", "meta"}
        /\ \A s \in Tasks : Finished(s)
        /\ \A s \in pending : taskPc[s] = "cancelled"
        /\ permits = SemaphorePermits
        /\ \A s \in CancelledTasks :
             /\ taskResult[s] = Null
             /\ \A i \in DOMAIN scrResult.items : scrResult.items[i].symbol # s
        /\ TotalCount(elimination_counts)
             = Cardinality(RejectedTasks)
               + (Cardinality(RowTasks) - Len(scrResult.items))
        /\ TotalCount(scrResult.meta.elimination_counts)
             = TotalCount(elimination_counts)

\* a step that cancels a task or runs its cleanup changes no count, no row
C5_CancelStep ==
    (\E s \in Tasks : taskPc[s] # taskPc'[s]
                        /\ taskPc'[s] \in {"cancelled", "cancel_cleanup"})
        => /\ elimination_counts' = elimination_counts
           /\ taskResult' = taskResult
           /\ scrRows' = scrRows

C5_Cancelling ==
    scrPc = "gather_pending" =>
        /\ pending # {}
        /\ \A s \in pending :
             taskPc[s] \in InFlightStates \cup {"acquire", "granted", "cancelled"}
        /\ \A s \in Tasks \ pending : taskPc[s] = "done"

C5_PendingCancelledAndAwaited ==
    /\ [](C5_Returned /\ C5_Cancelling)
    /\ [][C5_CancelStep]_vars

\* run has returned after cancelling a task that held a permit and one that
\* queued for one
C5_Witness ==
    /\ scrPc = "returned"
    /\ Cardinality(CancelledTasks) >= 2
    /\ Len(clean_symbols) > SemaphorePermits
    /\ taskPc[Len(clean_symbols)] = "cancelled"
    /\ permits = SemaphorePermits
    /\ scrResult.items # <<>>

(***************************************************************************)
(* C6 as stated: once the evaluation of a symbol whose bundle timed out or *)
(* failed has ended, none of its fetches is in flight any more and it has  *)
(* no row.                                                                 *)
(***************************************************************************)
C6_FetchCancelledOnTimeoutOrFailure ==
    \A s \in Tasks :
        upstream[s] # "answers" /\ taskPc[s] = "done"
            => orphans[s] = 0 /\ taskResult[s] = Null

(***************************************************************************)
(* C6, amended.  A bundle that times out is cancelled with its three       *)
(* fetches; a bundle in which one fetch fails ends the evaluation at once  *)
(* and leaves the fetches still in flight running, neither cancelled nor   *)
(* awaited.  In both cases the symbol yields no row, is never fetched      *)
(* again, increments no elimination counter, run returns its result dict,  *)
(* and the step changes nothing of any other evaluation except handing     *)
(* the freed permit to the oldest waiter.                                  *)
(***************************************************************************)
C6_Omitted ==
    /\ \A s \in Tasks :
         /\ upstream[s] # "answers" =>
              /\ taskResult[s] = Null
              /\ enrichment[s] = NoEnrichment
              /\ taskPc[s] \notin {"history_5y", "financials", "insider"}
         /\ upstream[s] = "hangs" => orphans[s] = 0
         /\ orphans[s] > 0 => upstream[s] = "fails" /\ taskPc[s] = "done"
    /\ scrPc = "returned" =>
         /\ DOMAIN scrResult = {"items", "meta"}
         /\ \A i \in DOMAIN scrResult.items :
              upstream[scrResult.items[i].symbol] = "answers"

C6_Step ==
    /\ \A s \in Tasks :
         ( /\ upstream[s] # "answers"
           /\ taskPc[s] \in {"bundle", "timeout_cleanup"}
           /\ taskPc'[s] # taskPc[s]
           /\ scrPc = "wait" )
         => /\ taskPc'[s] \in {"timeout_cleanup", "done"}
            /\ upstream[s] = "fails" => taskPc'[s] = "done"
            /\ elimination_counts' = elimination_counts
            /\ taskResult' = taskResult
            /\ enrichment' = enrichment
            /\ scrPc' = scrPc
            /\ \A t \in Tasks \ {s} :
                 /\ orphans'[t] = orphans[t]
                 /\ \/ taskPc'[t] = taskPc[t]
                    \/ /\ taskPc[t] = "acquire" /\ taskPc'[t] = "granted"
                       /\ waiters # <<>> /\ t = Head(waiters)
    \* no symbol is fetched a second time
    /\ \A s \in Tasks :
         /\ taskPc[s] \notin {"created", "acquire", "granted", "bundle"}
              => taskPc'[s] # "bundle"
         /\ Finished(s) => taskPc'[s] = taskPc[s]

C6_FetchTimeoutOrFailureOmitsSymbol ==
    /\ []C6_Omitted
    /\ [][C6_Step]_vars

\* run has returned the row of an answered symbol; another symbol timed
\* out, a third failed and one of its fetches is still running
C6_Witness ==
    /\ scrPc = "returned"
    /\ \E s, t \in Tasks :
         /\ upstream[s] = "fails" /\ taskPc[s] = "done" /\ orphans[s] > 0
         /\ upstream[t] = "hangs" /\ taskPc[t] = "done"
    /\ scrResult.items # <<>>
    /\ TotalCount(elimination_counts) = 0

(***************************************************************************)
(* C7.  A symbol whose data was fetched and that fails a filter increments *)
(* exactly one elimination counter, that of the first failing check in the *)
(* order of evaluate, and returns no row; a symbol that passes every check *)
(* increments none and returns a row.  The volatility-percentile filter of *)
(* the post-pass comes last and counts the rows it removes.  When min_roe  *)
(* = 0.5 is the only filter and rejects all N evaluated symbols,           *)
(* meta.elimination_counts is {"min_roe": N} and items is empty.           *)
(***************************************************************************)
CheckFails(name, f, d, loc) ==
    CASE name = "min_market_cap" ->
           \/ f.min_market_cap # Null
                /\ (d.market_cap = Null \/ RLess(d.market_cap, f.min_market_cap))
           \/ f.max_market_cap # Null
                /\ (d.market_cap = Null \/ RLess(f.max_market_cap, d.market_cap))
      [] name = "max_pe" ->
           \/ f.min_pe # Null
                /\ (d.trailing_pe = Null \/ RLess(d.trailing_pe, f.min_pe))
           \/ f.max_pe # Null
                /\ (d.trailing_pe = Null \/ RLess(f.max_pe, d.trailing_pe))
      [] name = "min_roe" ->
           f.min_roe # Null
             /\ (d.roe = Null \/ RLess(_normalize_rate(d.roe), f.min_roe))
      [] name = "max_drawdown_5y_max" ->
           f.max_drawdown_5y_max # Null
             /\ (loc.max_drawdown_5y = Null
                   \/ RLess(f.max_drawdown_5y_max, loc.max_drawdown_5y))
      [] name = "magic_formula_only" -> f.magic_formula_only /\ ~magic_formula(d)
      [] name = "low_volatility_only" -> f.low_volatility_only /\ ~low_volatility(d)
      [] name = "insider_buying_only" ->
           f.insider_buying_only /\ loc.insider.signal # <<TRUE>>
      [] name = "fcf_positive_5y" ->
           f.fcf_positive_5y /\ loc.financial_metrics.fcf_positive_5y # <<TRUE>>
      [] name = "debt_decreasing_trend" ->
           /\ f.debt_decreasing_trend
           /\ loc.financial_metrics.debt_decreasing_trend # <<TRUE>>
      [] name = "roic_gt_wacc" ->
           /\ f.roic_gt_wacc
           /\ \/ loc.financial_metrics.roic = Null
              \/ ~RLess(<<9, 100>>, _normalize_rate(loc.financial_metrics.roic))
      [] name = "operating_leverage_improving" ->
           /\ f.operating_leverage_improving
           /\ loc.financial_metrics.operating_leverage_improving # <<TRUE>>
      [] name = "min_revenue_cagr_3y" ->
           /\ f.min_revenue_cagr_3y # Null
           /\ \/ loc.financial_metrics.revenue_cagr_3y = Null
              \/ RLess(loc.financial_metrics.revenue_cagr_3y, f.min_revenue_cagr_3y)
      [] name = "min_eps_cagr_5y" ->
           /\ f.min_eps_cagr_5y # Null
           /\ \/ loc.financial_metrics.eps_cagr_5y = Null
              \/ RLess(loc.financial_metrics.eps_cagr_5y, f.min_eps_cagr_5y)
      [] name = "min_earnings_consistency" ->
           /\ f.min_earnings_consistency # Null
           /\ \/ loc.financial_metrics.earnings_consistency_score = Null
              \/ RLess(loc.financial_metrics.earnings_consistency_score,
                       f.min_earnings_consistency)

FirstFailing(f, d, loc) ==
    LET failing == {i \in DOMAIN FilterOrder : CheckFails(FilterOrder[i], f, d, loc)}
    IN  IF failing = {} THEN "pass"
        ELSE FilterOrder[CHOOSE i \in failing : \A j \in failing : i <= j]

FirstFailingOf(s) ==
    FirstFailing(NormalizedFilters(filters), ProviderData(s), enrichment[s])

\* the completed evaluations whose bundle was fetched
EvaluatedTasks == {s \in CompletedTasks : upstream[s] = "answers"}

C7_Counts ==
    /\ LET first == [s \in EvaluatedTasks |-> FirstFailingOf(s)]
       IN  /\ \A i \in DOMAIN FilterOrder :
                elimination_counts[FilterOrder[i]]
                  = Cardinality({s \in EvaluatedTasks : first[s] = FilterOrder[i]})
           /\ \A s \in EvaluatedTasks : first[s] = "pass" <=> taskResult[s] # Null
    /\ scrPc = "wait" => elimination_counts["max_volatility_percentile"] = 0
    /\ scrPc = "returned" =>
         LET meta == scrResult.meta
             items == scrResult.items
         IN  /\ elimination_counts["max_volatility_percentile"]
                  = Cardinality(RowTasks) - Len(items)
             /\ \A r \in Reasons :
                  IF elimination_counts[r] = 0
                  THEN r \notin DOMAIN meta.elimination_counts
                  ELSE /\ r \in DOMAIN meta.elimination_counts
                       /\ meta.elimination_counts[r] = elimination_counts[r]
             /\ (filters = MinRoeFilters /\ RejectedTasks = Tasks) =>
                  /\ DOMAIN meta.elimination_counts = {"min_roe"}
                  /\ meta.elimination_counts["min_roe"] = meta.evaluated_symbols
                  /\ meta.evaluated_symbols = Len(clean_symbols)
                  /\ items = <<>>

C7_Step ==
    \A s \in Tasks :
        ( /\ upstream[s] = "answers"
          /\ taskPc[s] \in {"bundle", "history_5y", "financials", "insider"}
          /\ taskPc'[s] = "done" )
        => LET r == FirstFailing(NormalizedFilters(filters), ProviderData(s),
                                 enrichment'[s])
           IN  IF r = "pass"
               THEN /\ elimination_counts' = elimination_counts
                    /\ taskResult'[s] # Null
               ELSE /\ elimination_counts' =
                         [elimination_counts EXCEPT ![r] = @ + 1]
                    /\ taskResult'[s] = Null

C7_FirstFailingFilterCounted ==
    /\ []C7_Counts
    /\ [][C7_Step]_vars

\* every symbol of the batch rejected by min_roe = 0.5: one with a low ROE,
\* one whose ROE is quoted in percent
C7_Witness ==
    /\ scrPc = "returned"
    /\ filters = MinRoeFilters
    /\ Cardinality(Tasks) >= 2
    /\ RejectedTasks = Tasks
    /\ scrResult.meta.elimination_counts["min_roe"] = Cardinality(Tasks)
    /\ scrResult.items = <<>>

(***************************************************************************)
(* C11.  A sell whose quantity exceeds the total quantity of the open lots *)
(* of its symbol consumes all of these lots and then adds                  *)
(* remainder * unit_proceeds to realized_short; no lot quantity is ever    *)
(* negative, the lots of the other symbols are untouched, and a lot bought *)
(* later in the ordering enters the list with its full quantity.           *)
(***************************************************************************)
RECURSIVE LotsGain(_, _)
LotsGain(lots, unit_proceeds) ==
    IF lots = <<>> THEN RZero
    ELSE RAdd(RScale(Head(lots).qty, RSub(unit_proceeds, Head(lots).unit_cost)),
              LotsGain(Tail(lots), unit_proceeds))

\* the step of a sell that exceeds the open lots by more than `tolerance`
C11_OversellStep(tolerance) ==
    LET tx == tx_rows[taxIdx + 1]
        lots == lots_by_symbol[tx.symbol]
        remainder == tx.quantity - SumQty(lots)
    IN  (TaxLoop /\ tx.side = "sell" /\ remainder > tolerance) =>
          /\ lots_by_symbol'[tx.symbol] = <<>>
          /\ RAdd(realized_short', realized_long') =
                RAdd(RAdd(realized_short, realized_long),
                     RAdd(LotsGain(lots, UnitProceeds(tx)),
                          RScale(remainder, UnitProceeds(tx))))
          /\ realized_long' =
                RAdd(realized_long, FifoGain(lots, tx, Len(lots), TRUE))

C11_OtherLotsStep ==
    LET tx == tx_rows[taxIdx + 1]
    IN  TaxLoop =>
          /\ \A s \in Symbols \ {tx.symbol} :
                lots_by_symbol'[s] = lots_by_symbol[s]
          /\ tx.side = "buy" =>
                /\ Len(lots_by_symbol'[tx.symbol]) = Len(lots_by_symbol[tx.symbol]) + 1
                /\ lots_by_symbol'[tx.symbol][Len(lots_by_symbol'[tx.symbol])].qty
                      = tx.quantity
                /\ realized_short' = realized_short
                /\ realized_long' = realized_long

C11_LotsPositive ==
    \A s \in Symbols : \A k \in DOMAIN lots_by_symbol[s] :
        lots_by_symbol[s][k].qty > 0

\* the statement for every remainder above zero
C11_AnyRemainderIsShortTermGain ==
    /\ []C11_LotsPositive
    /\ [][C11_OversellStep(0) /\ C11_OtherLotsStep]_vars

\* the statement for every remainder above 1e-9 shares
C11_UnmatchedRemainderIsShortTermGain ==
    /\ []C11_LotsPositive
    /\ [][C11_OversellStep(LotEpsilon) /\ C11_OtherLotsStep]_vars

\* a sell has just been processed that found lots and exceeded them by more
\* than 1e-9 shares, and a later buy of the same symbol is still to come
C11_Witness ==
    /\ taxPc = "loop"
    /\ taxIdx >= 2
    /\ taxIdx < Len(tx_rows)
    /\ LET tx == tx_rows[taxIdx]
           before == TaxFold(tx_rows, taxIdx - 1)
       IN  /\ tx.side = "sell"
           /\ before.lots[tx.symbol] # <<>>
           /\ tx.quantity - SumQty(before.lots[tx.symbol]) > LotEpsilon
           /\ lots_by_symbol[tx.symbol] = <<>>
           /\ realized_short # before.rs
           /\ tx_rows[taxIdx + 1].side = "buy"
           /\ tx_rows[taxIdx + 1].symbol = tx.symbol

(***************************************************************************)
(* C12.  Ranking is a post-pass of run: no row carries a rank before all   *)
(* tasks have completed or the deadline has passed; afterwards the         *)
(* composite_rank values of the n = meta.total_matches matched rows are    *)
(* exactly 1..n, a row of smaller rank has the larger score or, at equal   *)
(* scores, a market cap at least as large, percentile_rank is              *)
(* (n - rank)/(n - 1)*100 (100 when n = 1), and sector_rank numbers the    *)
(* rows of each sector 1..k in composite_rank order.                       *)
(***************************************************************************)
RankFields == {"composite_rank", "percentile_rank", "sector_rank"}

CapOrZero(r) == IF r.market_cap = Null THEN RZero ELSE r.market_cap

C12_Ranks ==
    LET n == Len(scrRows)
        sectorOf(r) == IF r.sector = None THEN "Unknown" ELSE r.sector
    IN  scrPc \in {"gather_pending", "returned"} =>
          /\ \A i \in 1..n : RankFields \subseteq DOMAIN scrRows[i]
          /\ {scrRows[i].composite_rank : i \in 1..n} = 1..n
          /\ \A i, j \in 1..n :
                scrRows[i].composite_rank < scrRows[j].composite_rank =>
                   \/ scrRows[i].score > scrRows[j].score
                   \/ /\ scrRows[i].score = scrRows[j].score
                      /\ RLeq(CapOrZero(scrRows[j]), CapOrZero(scrRows[i]))
          /\ \A i \in 1..n :
                scrRows[i].percentile_rank =
                   IF n = 1 THEN RInt(100)
                   ELSE RNorm(100 * (n - scrRows[i].composite_rank), n - 1)
          /\ \A i \in 1..n :
                scrRows[i].sector_rank =
                   Cardinality({j \in 1..n :
                       /\ sectorOf(scrRows[j]) = sectorOf(scrRows[i])
                       /\ scrRows[j].composite_rank <= scrRows[i].composite_rank})
          /\ scrPc = "returned" => scrResult.meta.total_matches = n

C12_NoRankBefore ==
    /\ scrPc \in {"idle", "wait"} => scrRows = <<>>
    /\ \A s \in Tasks :
          taskResult[s] # Null => DOMAIN taskResult[s][1] \cap RankFields = {}

C12_PostPassStep ==
    scrRows' # scrRows =>
       /\ scrPc = "wait"
       /\ \/ \A s \in Tasks : Finished(s)
          \/ pending' # {}
       /\ \A i \in DOMAIN scrRows' :
             /\ Finished(scrRows'[i].symbol)
             /\ taskResult[scrRows'[i].symbol] # Null

C12_RankingIsPostPass ==
    /\ [](C12_Ranks /\ C12_NoRankBefore)
    /\ [][C12_PostPassStep]_vars

\* run returned after the deadline with at least four rows of several
\* sectors, two rows of one sector having equal scores
C12_Witness ==
    /\ scrPc = "returned"
    /\ scrResult.meta.timed_out
    /\ Len(scrRows) >= 4
    /\ \E i, j \in DOMAIN scrRows :
          /\ i # j
          /\ scrRows[i].score = scrRows[j].score
          /\ scrRows[i].sector = scrRows[j].sector
          /\ scrRows[i].sector_rank < scrRows[j].sector_rank
    /\ \E i, j \in DOMAIN scrRows : scrRows[i].sector # scrRows[j].sector

(***************************************************************************)
(* StockService (services/stock_service.py): the valuation engine.  Rates  *)
(* and amounts are exact rationals; an optional argument is a rational or  *)
(* Null.                                                                   *)
(***************************************************************************)
MaxYears == 2

R(n, d) == RNorm(n, d)

\* the product, the quotient, the sum and the difference of two normalised
\* rationals, cancelling common factors before multiplying
RTimes(a, b) ==
    LET g1 == GCD(Abs(a[1]), b[2])
        g2 == GCD(Abs(b[1]), a[2])
    IN  <<(a[1] \div g1) * (b[1] \div g2), (a[2] \div g2) * (b[2] \div g1)>>

RDiv(a, b) ==
    IF b[1] > 0 THEN RTimes(a, <<b[2], b[1]>>) ELSE RTimes(a, <<-b[2], -b[1]>>)

RPlus(a, b) ==
    LET g == GCD(a[2], b[2])
    IN  RNorm(a[1] * (b[2] \div g) + b[1] * (a[2] \div g), a[2] * (b[2] \div g))

RMinus(a, b) == RPlus(a, <<-b[1], b[2]>>)

RECURSIVE RPow(_, _)
RPow(a, n) == IF n = 0 THEN RInt(1) ELSE RTimes(a, RPow(a, n - 1))

RMin(a, b) == IF RLess(b, a) THEN b ELSE a
RMax(a, b) == IF RLess(a, b) THEN b ELSE a

\* max(low, min(high, value))
_clamp(value, low, high) == RMax(low, RMin(high, value))

\* StockService._safe_div
StockSafeDiv(numerator, denominator) ==
    IF numerator = Null \/ denominator = Null THEN Null
    ELSE IF denominator[1] = 0 THEN Null
    ELSE RDiv(numerator, denominator)

AllNullDcf ==
    [projection |-> <<>>,
     present_value_of_cash_flows |-> Null,
     terminal_value |-> Null,
     enterprise_value |-> Null,
     equity_value |-> Null,
     intrinsic_value_per_share |-> Null,
     upside_percent |-> Null]

\* the guard of lines 796-804 without the test against terminal growth
RatesGuardWithoutFloor(discount, terminal_growth) ==
    \/ RLeq(discount, R(-9, 10))
    \/ RLeq(terminal_growth, R(-9, 10))

\* the tests of lines 796-804 on the two rates
RatesGuard(discount, terminal_growth) ==
    \/ RLeq(discount, R(-9, 10))
    \/ RLeq(terminal_growth, R(-9, 10))
    \/ RLeq(discount, RPlus(terminal_growth, R(2, 1000)))

\* lines 784-814: the conditions under which nothing is computed
DcfGuard(a) ==
    \/ a.base_cash_flow = Null
    \/ a.shares_outstanding = Null
    \/ ~RPos(a.shares_outstanding)
    \/ RatesGuard(a.discount_rate, a.terminal_growth_rate)
    \/ ~RPos(a.base_cash_flow)

\* a float division of lines 818-834 would have a zero divisor
DcfDividesByZero(a) ==
    \/ a.projection_years >= 1 /\ RPlus(RInt(1), a.discount_rate) = RZero
    \/ a.discount_rate = a.terminal_growth_rate

\* a projection that does not grow
FlatCashFlow(base_cash_flow, growth, year_index) == base_cash_flow

\* line 821: base_cash_flow * ((1 + growth) ** year_index)
ProjectedCashFlow(base_cash_flow, growth, year_index) ==
    RTimes(base_cash_flow, RPow(RPlus(RInt(1), growth), year_index))

\* lines 816-861
DcfComputed(a) ==
    LET growth == a.growth_rate
        discount == a.discount_rate
        terminal_growth == a.terminal_growth_rate
        years == a.projection_years
        projected(i) == ProjectedCashFlow(a.base_cash_flow, growth, i)
        discount_factor(i) == RPow(RPlus(RInt(1), discount), i)
        projection ==
            [i \in 1..years |->
                [year_index |-> i,
                 cash_flow |-> projected(i),
                 present_value |-> RDiv(projected(i), discount_factor(i))]]
        pv_sum[i \in 0..years] ==
            IF i = 0 THEN RZero
            ELSE RPlus(pv_sum[i - 1], projection[i].present_value)
        pv_cash_flows == pv_sum[years]
        last_cash_flow == IF years = 0 THEN a.base_cash_flow ELSE projected(years)
        terminal_cash_flow == RTimes(last_cash_flow, RPlus(RInt(1), terminal_growth))
        terminal_value == RDiv(terminal_cash_flow, RMinus(discount, terminal_growth))
        present_value_terminal ==
            RDiv(terminal_value, RPow(RPlus(RInt(1), discount), years))
        net_debt == IF a.net_debt = Null THEN RZero ELSE a.net_debt
        total == RPlus(pv_cash_flows, present_value_terminal)
        equity_value == IF a.mode = "fcff" THEN RMinus(total, net_debt) ELSE total
        enterprise_value == IF a.mode = "fcff" THEN total ELSE RPlus(total, net_debt)
        intrinsic == StockSafeDiv(equity_value, a.shares_outstanding)
        upside ==
            IF intrinsic # Null /\ a.market_price # Null /\ RPos(a.market_price)
            THEN RTimes(RInt(100), RDiv(RMinus(intrinsic, a.market_price), a.market_price))
            ELSE Null
    IN  [projection |-> projection,
         present_value_of_cash_flows |-> pv_cash_flows,
         terminal_value |-> terminal_value,
         present_value_terminal |-> present_value_terminal,
         enterprise_value |-> enterprise_value,
         equity_value |-> equity_value,
         intrinsic_value_per_share |-> intrinsic,
         upside_percent |-> upside]

DcfRaised == [raised |-> "ZeroDivisionError"]

\* _project_dcf with the rates tested by `guard`
ProjectDcfGuardedBy(a, guard(_, _)) ==
    IF \/ a.base_cash_flow = Null
       \/ a.shares_outstanding = Null
       \/ ~RPos(a.shares_outstanding)
    THEN AllNullDcf
    ELSE IF guard(a.discount_rate, a.terminal_growth_rate) \/ ~RPos(a.base_cash_flow)
    THEN AllNullDcf
    ELSE IF DcfDividesByZero(a) THEN DcfRaised
    ELSE DcfComputed(a)

\* _project_dcf that lets a discount rate at or below terminal growth pass
_project_dcf_without_floor(a) == ProjectDcfGuardedBy(a, RatesGuardWithoutFloor)

_project_dcf(a) == ProjectDcfGuardedBy(a, RatesGuard)

\* the arguments of the calls of _project_dcf
DcfArgs(base, growth, discount, terminal, years, shares, debt, price, mode) ==
    [fn |-> "_project_dcf",
     base_cash_flow |-> base, growth_rate |-> growth, discount_rate |-> discount,
     terminal_growth_rate |-> terminal, projection_years |-> years,
     shares_outstanding |-> shares, net_debt |-> debt, market_price |-> price,
     mode |-> mode]

CashFlows == {Null, RInt(-5), RZero, RInt(100)}
ShareCounts == {Null, RInt(-1), RZero, RInt(10)}
GrowthRates == {RInt(-3), RInt(-2), RInt(-1), R(-1, 2), RZero, R(1, 2), RInt(1)}

\* <<discount rate, terminal growth rate>>
RatePairs ==
    {<<RInt(-1), RInt(-2)>>, <<R(-19, 20), RInt(-1)>>, <<R(-9, 10), R(-19, 20)>>,
     <<RZero, R(-9, 10)>>, <<R(-4, 5), R(-17, 20)>>, <<RZero, R(-17, 20)>>,
     <<RZero, R(-1, 500)>>, <<RZero, R(-3, 1000)>>, <<RZero, RZero>>,
     <<R(1, 4), RZero>>, <<R(1, 2), RZero>>, <<RInt(1), RZero>>,
     <<R(1, 4), R(1, 4)>>, <<R(1, 4), R(1, 2)>>, <<R(1, 2), R(1, 4)>>}

NetDebts == {Null, RInt(50)}
MarketPrices == {Null, RInt(40)}
Modes == {"fcff", "fcfe"}

DcfCalls ==
    {DcfArgs(base, growth, rates[1], rates[2], years, shares, debt, price, mode) :
        base \in CashFlows, growth \in GrowthRates, rates \in RatePairs,
        years \in 0..MaxYears, shares \in ShareCounts, debt \in NetDebts,
        price \in MarketPrices, mode \in Modes}

StockCall(calls) ==
    /\ stockPc = "call"
    /\ stockArgs \in calls
    /\ stockLocals = [fn |-> "none"]
    /\ stockOut = [fn |-> "none"]

ProjectDcf ==
    /\ stockPc = "call"
    /\ stockArgs.fn = "_project_dcf"
    /\ stockOut' = _project_dcf(stockArgs)
    /\ stockPc' = "returned"
    /\ UNCHANGED <<stockArgs, stockLocals>>
    /\ UNCHANGED <<portfolioVars, scrVars, coreVars>>

(***************************************************************************)
(* _reverse_dcf_growth, lines 863-905.  The loop is `for _ in range(70)`;  *)
(* the model runs MaxBisections iterations of it, each halving the         *)
(* interval exactly as the code does.                                      *)
(***************************************************************************)
MaxBisections == 3

GrowthLow == R(-30, 100)
GrowthHigh == R(45, 100)

ReverseArgs(base, discount, terminal, years, shares, debt, price, mode) ==
    [fn |-> "_reverse_dcf_growth",
     base_cash_flow |-> base, discount_rate |-> discount,
     terminal_growth_rate |-> terminal, projection_years |-> years,
     shares_outstanding |-> shares, net_debt |-> debt, market_price |-> price,
     mode |-> mode]

ReverseRatePairs == {<<R(1, 4), RZero>>, <<R(1, 2), RZero>>, <<RZero, RZero>>}
ReversePrices == {Null, RZero, RInt(1), RInt(40), RInt(100000)}

ReverseCalls ==
    {ReverseArgs(base, rates[1], rates[2], years, shares, debt, price, mode) :
        base \in {Null, RZero, RInt(100)}, rates \in ReverseRatePairs,
        years \in 1..2, shares \in {Null, RZero, RInt(10)}, debt \in NetDebts,
        price \in ReversePrices, mode \in Modes}

\* the forward call the loop makes at growth rate `growth`
ForwardCall(a, growth) ==
    DcfArgs(a.base_cash_flow, growth, a.discount_rate, a.terminal_growth_rate,
            a.projection_years, a.shares_outstanding, a.net_debt,
            a.market_price, a.mode)

\* lines 874-882
ReverseInvalid(a) ==
    \/ a.base_cash_flow = Null
    \/ ~RPos(a.base_cash_flow)
    \/ a.shares_outstanding = Null
    \/ ~RPos(a.shares_outstanding)
    \/ a.market_price = Null
    \/ ~RPos(a.market_price)

Half(low, high) == RTimes(RPlus(low, high), R(1, 2))

\* lines 874-884: the validity test and the initial interval
ReverseBegin ==
    /\ stockPc = "call"
    /\ stockArgs.fn = "_reverse_dcf_growth"
    /\ IF ReverseInvalid(stockArgs)
       THEN /\ stockOut' = [value |-> Null]
            /\ stockPc' = "returned"
            /\ UNCHANGED stockLocals
       ELSE /\ stockLocals' = [low |-> GrowthLow, high |-> GrowthHigh, steps |-> 0]
            /\ stockPc' = "bisect"
            /\ UNCHANGED stockOut
    /\ UNCHANGED stockArgs
    /\ UNCHANGED <<portfolioVars, scrVars, coreVars>>

\* lines 885-903: one iteration of the loop
ReverseStep ==
    /\ stockPc = "bisect"
    /\ stockLocals.steps < MaxBisections
    /\ LET mid == Half(stockLocals.low, stockLocals.high)
           price == _project_dcf(ForwardCall(stockArgs, mid)).intrinsic_value_per_share
       IN  IF price = Null
           THEN /\ stockOut' = [value |-> Null]
                /\ stockPc' = "returned"
                /\ UNCHANGED stockLocals
           ELSE /\ stockLocals' =
                      IF RLess(stockArgs.market_price, price)
                      THEN [stockLocals EXCEPT !.high = mid, !.steps = @ + 1]
                      ELSE [stockLocals EXCEPT !.low = mid, !.steps = @ + 1]
                /\ UNCHANGED <<stockPc, stockOut>>
    /\ UNCHANGED stockArgs
    /\ UNCHANGED <<portfolioVars, scrVars, coreVars>>

\* line 905: the loop is exhausted
ReverseReturn ==
    /\ stockPc = "bisect"
    /\ stockLocals.steps = MaxBisections
    /\ stockOut' = [value |-> Half(stockLocals.low, stockLocals.high)]
    /\ stockPc' = "returned"
    /\ UNCHANGED <<stockArgs, stockLocals>>
    /\ UNCHANGED <<portfolioVars, scrVars, coreVars>>

(***************************************************************************)
(* _sensitivity_grid, lines 907-958.                                       *)
(***************************************************************************)
Deltas == <<R(-2, 100), R(-1, 100), RZero, R(1, 100), R(2, 100)>>

InSeq(x, q) == \E i \in DOMAIN q : q[i] = x

\* the candidates of Deltas[1..k] that pass `keep`, without repetitions
RECURSIVE Points(_, _, _, _, _)
Points(centre, low, high, keep(_), k) ==
    IF k = 0 THEN <<>>
    ELSE LET before == Points(centre, low, high, keep, k - 1)
             candidate == _clamp(RPlus(centre, Deltas[k]), low, high)
         IN  IF keep(candidate) /\ ~InSeq(candidate, before)
             THEN Append(before, candidate) ELSE before

RECURSIVE InsertAscending(_, _)
InsertAscending(q, x) ==
    IF q = <<>> THEN <<x>>
    ELSE IF RLess(x, Head(q)) THEN <<x>> \o q
    ELSE <<Head(q)>> \o InsertAscending(Tail(q), x)

\* sorted(q)
RECURSIVE SortedAscending(_)
SortedAscending(q) ==
    IF q = <<>> THEN <<>>
    ELSE InsertAscending(SortedAscending(SubSeq(q, 1, Len(q) - 1)), q[Len(q)])

Reversed(q) == [i \in DOMAIN q |-> q[Len(q) + 1 - i]]

\* lines 919-925
WaccPoints(discount_rate, terminal_growth_rate) ==
    LET floor == RPlus(terminal_growth_rate, R(2, 1000))
        kept == Points(discount_rate, R(5, 100), R(25, 100),
                       LAMBDA c : RLess(floor, c), Len(Deltas))
    IN  IF kept = <<>>
        THEN <<RMax(discount_rate, RPlus(terminal_growth_rate, R(1, 100)))>>
        ELSE kept

\* lines 927-932; the points are distinct, so the descending sort is the
\* reverse of the ascending one
GrowthPoints(growth_rate) ==
    Reversed(SortedAscending(
        Points(growth_rate, R(-15, 100), R(25, 100), LAMBDA c : TRUE, Len(Deltas))))

\* lines 934-958
_sensitivity_grid(a) ==
    LET wacc_points == WaccPoints(a.discount_rate, a.terminal_growth_rate)
        growth_points == GrowthPoints(a.growth_rate)
        waccs == SortedAscending(wacc_points)
        cell(growth, wacc) ==
            LET result == _project_dcf(
                    DcfArgs(a.base_cash_flow, growth, wacc, a.terminal_growth_rate,
                            a.projection_years, a.shares_outstanding, a.net_debt,
                            a.market_price, a.mode))
            IN  [wacc |-> wacc,
                 intrinsic_value_per_share |-> result.intrinsic_value_per_share,
                 upside_percent |-> result.upside_percent]
    IN  [wacc_values |-> waccs,
         growth_values |-> growth_points,
         rows |-> [i \in DOMAIN growth_points |->
                     [growth |-> growth_points[i],
                      values |-> [j \in DOMAIN waccs |->
                                     cell(growth_points[i], waccs[j])]]]]

GridArgs(base, growth, discount, terminal, years, shares, debt, price, mode) ==
    [DcfArgs(base, growth, discount, terminal, years, shares, debt, price, mode)
        EXCEPT !.fn = "_sensitivity_grid"]

GridCalls ==
    {GridArgs(base, growth, discount, terminal, years, RInt(10), Null, RInt(40), mode) :
        base \in {Null, RInt(100)},
        growth \in {R(-1, 2), R(-14, 100), RZero, R(24, 100), R(1, 2)},
        discount \in {RZero, R(3, 100), R(1, 10), R(24, 100), R(1, 2)},
        terminal \in {RZero, R(48, 1000), R(6, 100), R(15, 100), R(245, 1000),
                      R(3, 10)},
        years \in {1}, mode \in Modes}

SensitivityGrid ==
    /\ stockPc = "call"
    /\ stockArgs.fn = "_sensitivity_grid"
    /\ stockOut' = _sensitivity_grid(stockArgs)
    /\ stockPc' = "returned"
    /\ UNCHANGED <<stockArgs, stockLocals>>
    /\ UNCHANGED <<portfolioVars, scrVars, coreVars>>

(***************************************************************************)
(* _build_valuation_engine, lines 1246-1270: the rates it derives from the *)
(* profile and hands to _project_dcf, _reverse_dcf_growth and              *)
(* _sensitivity_grid (lines 1303-1370).  The five-year values of these     *)
(* calls are not computed here; the model records the rates, whether the   *)
(* rate guard of _project_dcf triggers on them, and the WACC points of the *)
(* sensitivity grid.                                                       *)
(***************************************************************************)
EngineArgs(revenue_growth, beta, debt_to_equity) ==
    [fn |-> "_build_valuation_engine",
     profile |-> [revenue_growth |-> revenue_growth, beta |-> beta,
                  debt_to_equity |-> debt_to_equity]]

EngineCalls ==
    {EngineArgs(g, b, de) :
        g \in {Null, RInt(-30), RInt(-1), R(-1, 10), RZero, R(5, 100), R(1, 10),
               R(3, 2), RInt(50)},
        b \in {Null, RInt(-1), RZero, R(1, 100), R(1, 2), RInt(1), RInt(3),
               RInt(100)},
        de \in {Null, RInt(-500), RInt(-1), RZero, R(2, 5), RInt(10), RInt(25),
                RInt(150), RInt(5000)}}

\* line 1250
EngineGrowthRate(profile) ==
    LET revenue_growth == _normalize_rate(profile.revenue_growth)
    IN  _clamp(IF revenue_growth = Null THEN R(5, 100) ELSE revenue_growth,
               R(-5, 100), R(20, 100))

\* lines 1252-1257
CostOfEquity(profile) ==
    LET beta == IF profile.beta = Null \/ ~RPos(profile.beta)
                THEN RInt(1) ELSE profile.beta
    IN  RPlus(R(43, 1000), RTimes(beta, R(55, 1000)))

\* lines 1259-1264
DebtWeight(profile) ==
    LET given == profile.debt_to_equity
        scaled == IF given # Null /\ RLess(RInt(10), RAbs(given))
                  THEN RTimes(given, R(1, 100)) ELSE given
        debt_to_equity == IF scaled = Null \/ scaled[1] < 0 THEN R(4, 10) ELSE scaled
    IN  RDiv(debt_to_equity, RPlus(RInt(1), debt_to_equity))

\* line 1266
BlendedWacc(profile) ==
    LET debt_weight == DebtWeight(profile)
    IN  RPlus(RTimes(CostOfEquity(profile), RMinus(RInt(1), debt_weight)),
              RTimes(RTimes(R(5, 100), RMinus(RInt(1), R(21, 100))), debt_weight))

\* the blended rate as it comes
EngineWaccUnclamped(profile) == BlendedWacc(profile)

\* lines 1266-1267
EngineWacc(profile) == _clamp(BlendedWacc(profile), R(6, 100), R(18, 100))

\* line 1269
EngineTerminalGrowth(profile) ==
    _clamp(RMax(R(15, 1000), RTimes(EngineGrowthRate(profile), R(45, 100))),
           R(1, 100), R(4, 100))

BuildValuationEngine ==
    /\ stockPc = "call"
    /\ stockArgs.fn = "_build_valuation_engine"
    /\ LET profile == stockArgs.profile
           wacc == EngineWacc(profile)
           terminal_growth_rate == EngineTerminalGrowth(profile)
       IN  stockOut' =
             [inputs |->
                 [growth_rate |-> EngineGrowthRate(profile),
                  terminal_growth_rate |-> terminal_growth_rate,
                  wacc |-> wacc,
                  cost_of_equity |-> CostOfEquity(profile),
                  cost_of_debt |-> R(5, 100),
                  tax_rate |-> R(21, 100),
                  projection_years |-> 5],
              dcf_rates_guarded |-> RatesGuard(wacc, terminal_growth_rate),
              sensitivity_wacc_values |->
                  SortedAscending(WaccPoints(wacc, terminal_growth_rate))]
    /\ stockPc' = "returned"
    /\ UNCHANGED <<stockArgs, stockLocals>>
    /\ UNCHANGED <<portfolioVars, scrVars, coreVars>>

ValuationCalls == DcfCalls \cup ReverseCalls \cup GridCalls \cup EngineCalls

ValuationNext ==
    \/ ProjectDcf
    \/ ReverseBegin
    \/ ReverseStep
    \/ ReverseReturn
    \/ SensitivityGrid
    \/ BuildValuationEngine

InitValuation ==
    TaxIdle /\ DbInit /\ InsIdle /\ ScreenerIdle /\ StockCall(ValuationCalls) /\ CoreIdle

SpecValuation == InitValuation /\ [][ValuationNext]_vars

(***************************************************************************)
(* C13.  _project_dcf never raises; it returns the all-null result (empty  *)
(* projection, every value null) whenever base cash flow is null or <= 0,  *)
(* shares outstanding is null or <= 0, discount rate <= -0.9, terminal     *)
(* growth <= -0.9 or discount rate <= terminal growth + 0.002, and in      *)
(* every other case intrinsic_value_per_share is a finite number.          *)
(***************************************************************************)
DcfReturned == stockPc = "returned" /\ stockArgs.fn = "_project_dcf"

Finite(x) == x # Null /\ x[2] > 0

C13_Listed(a) ==
    \/ a.base_cash_flow = Null
    \/ a.base_cash_flow # Null /\ a.base_cash_flow[1] <= 0
    \/ a.shares_outstanding = Null
    \/ a.shares_outstanding # Null /\ a.shares_outstanding[1] <= 0
    \/ RLeq(a.discount_rate, R(-9, 10))
    \/ RLeq(a.terminal_growth_rate, R(-9, 10))
    \/ RLeq(RMinus(a.discount_rate, a.terminal_growth_rate), R(1, 500))

Intrinsic(a) == _project_dcf(a).intrinsic_value_per_share

\* the calls that differ from a in the growth rate only, by a larger one
LargerGrowth(a) ==
    {[a EXCEPT !.growth_rate = g] : g \in {x \in GrowthRates : RLess(a.growth_rate, x)}}

\* the calls that differ from a in the discount rate only, by a larger one
\* that triggers no guard
LargerDiscount(a) ==
    {b \in {[a EXCEPT !.discount_rate = rates[1]] :
              rates \in {x \in RatePairs : x[2] = a.terminal_growth_rate}} :
        RLess(a.discount_rate, b.discount_rate) /\ ~DcfGuard(b)}

C14_Monotone(growthDomain(_), discountDomain(_)) ==
    (DcfReturned /\ ~DcfGuard(stockArgs)) =>
       /\ growthDomain(stockArgs) =>
             \A b \in LargerGrowth(stockArgs) :
                 RLess(stockOut.intrinsic_value_per_share, Intrinsic(b))
       /\ discountDomain(stockArgs) =>
             \A b \in LargerDiscount(stockArgs) :
                 RLess(Intrinsic(b), stockOut.intrinsic_value_per_share)

AnyCall(a) == TRUE
GrowthAboveMinusOne(a) == RLess(RInt(-1), a.growth_rate)
GrowingProjection(a) == GrowthAboveMinusOne(a) /\ a.projection_years >= 1

ReverseReturned == stockPc = "returned" /\ stockArgs.fn = "_reverse_dcf_growth"

C15_InvalidInputs(a) ==
    \/ ReverseInvalid(a)
    \/ RatesGuard(a.discount_rate, a.terminal_growth_rate)

C15_NotBracketed(a) ==
    \/ RLess(a.market_price, Intrinsic(ForwardCall(a, GrowthLow)))
    \/ RLess(Intrinsic(ForwardCall(a, GrowthHigh)), a.market_price)

C15_NullUnlessBracketed ==
    ReverseReturned =>
       IF C15_InvalidInputs(stockArgs) THEN stockOut.value = Null
       ELSE IF C15_NotBracketed(stockArgs) THEN stockOut.value = Null
       ELSE /\ stockOut.value # Null
            /\ RLeq(GrowthLow, stockOut.value)
            /\ RLeq(stockOut.value, GrowthHigh)

(***************************************************************************)
(* C16.  For every input of _sensitivity_grid the grid has at most 5       *)
(* distinct WACC values and at most 5 distinct growth values, every WACC   *)
(* value lies in [0.05, 0.25] and is strictly greater than                 *)
(* terminal_growth_rate + 0.002, every growth value lies in                *)
(* [-0.15, 0.25], and each row has exactly one cell per WACC value.        *)
(***************************************************************************)
GridReturned == stockPc = "returned" /\ stockArgs.fn = "_sensitivity_grid"

Distinct(q) == \A i, j \in DOMAIN q : i # j => q[i] # q[j]

EngineReturned == stockPc = "returned" /\ stockArgs.fn = "_build_valuation_engine"

C17_BetaDefaulted(profile) == profile.beta = Null \/ profile.beta[1] <= 0

C17_DebtToEquityDefaulted(profile) ==
    profile.debt_to_equity = Null \/ profile.debt_to_equity[1] < 0

\* cost of equity at beta 1.0, and the WACC of that cost at debt/equity 0.4
C17_DefaultCostOfEquity == R(98, 1000)
C17_WaccAtDefaultDebt(cost_of_equity) ==
    _clamp(RPlus(RTimes(cost_of_equity, R(5, 7)), RTimes(R(395, 10000), R(2, 7))),
           R(6, 100), R(18, 100))

C17_EngineRatesWithinClamps ==
    EngineReturned =>
       LET in == stockOut.inputs
           profile == stockArgs.profile
       IN  /\ RLeq(R(6, 100), in.wacc) /\ RLeq(in.wacc, R(18, 100))
           /\ RLeq(R(1, 100), in.terminal_growth_rate)
           /\ RLeq(in.terminal_growth_rate, R(4, 100))
           /\ C17_BetaDefaulted(profile) => in.cost_of_equity = C17_DefaultCostOfEquity
           /\ C17_DebtToEquityDefaulted(profile) =>
                 in.wacc = C17_WaccAtDefaultDebt(in.cost_of_equity)
           /\ RLess(RPlus(in.terminal_growth_rate, R(2, 1000)), in.wacc)
           /\ ~stockOut.dcf_rates_guarded
           /\ \A i \in DOMAIN stockOut.sensitivity_wacc_values :
                 ~RatesGuard(stockOut.sensitivity_wacc_values[i],
                             in.terminal_growth_rate)

\* a profile of low beta, high leverage and high growth, whose blended rate
\* is below the terminal growth rate, was given the WACC 0.06
C17_Witness ==
    /\ EngineReturned
    /\ RLess(BlendedWacc(stockArgs.profile), stockOut.inputs.terminal_growth_rate)
    /\ stockOut.inputs.wacc = R(6, 100)
    /\ stockOut.inputs.terminal_growth_rate = R(4, 100)
    /\ ~C17_BetaDefaulted(stockArgs.profile)
    /\ ~C17_DebtToEquityDefaulted(stockArgs.profile)

(***************************************************************************)
(* The guarded division of both services and the two composite scores of   *)
(* StockService._build_ratio_dashboard (Altman Z, Piotroski F), with the   *)
(* screener's own _piotroski_score.  A statement is the record of the      *)
(* values _extract_statement_values finds for one year, Null where the     *)
(* statement has no such metric; the lookup of a metric by its name is not *)
(* modelled.  An optional boolean is <<TRUE>>, <<FALSE>> or Null, an       *)
(* optional integer <<n>> or Null.                                         *)
(***************************************************************************)
\* a guarded division that answers 0 for a zero denominator
PortfolioSafeDivZeroForZero(numerator, denominator) ==
    IF numerator = Null THEN Null
    ELSE IF denominator = Null THEN Null
    ELSE IF denominator = RZero THEN RZero
    ELSE RDiv(numerator, denominator)

\* PortfolioService._safe_div: `denominator in (None, 0)`
PortfolioSafeDiv(numerator, denominator) ==
    IF numerator = Null THEN Null
    ELSE IF denominator = Null THEN Null
    ELSE IF denominator = RZero THEN Null
    ELSE RDiv(numerator, denominator)

\* _safe_div of the named service
SafeDivOf(service, numerator, denominator) ==
    IF service = "stock" THEN StockSafeDiv(numerator, denominator)
    ELSE PortfolioSafeDiv(numerator, denominator)

Operands == {Null, RInt(-3), RZero, RInt(1), R(7, 2), RInt(12)}

SafeDivCalls ==
    [fn : {"_safe_div"}, service : {"stock", "portfolio"},
     numerator : Operands, denominator : Operands]

SafeDiv ==
    /\ stockPc = "call"
    /\ stockArgs.fn = "_safe_div"
    /\ stockOut' = [value |-> SafeDivOf(stockArgs.service, stockArgs.numerator,
                                        stockArgs.denominator)]
    /\ stockPc' = "returned"
    /\ UNCHANGED <<stockArgs, stockLocals>>
    /\ UNCHANGED <<portfolioVars, scrVars, coreVars>>

(***************************************************************************)
(* Statements.                                                             *)
(***************************************************************************)
StatementFields ==
    {"revenue", "gross_profit", "ebit", "net_income", "total_assets",
     "current_assets", "current_liabilities", "total_liabilities",
     "long_term_debt", "working_capital", "retained_earnings",
     "shares_outstanding", "operating_cash_flow"}

NoStatement == [k \in StatementFields |-> Null]

\* a statement with the given values, Null elsewhere
Statement(given) ==
    [k \in StatementFields |-> IF k \in DOMAIN given THEN given[k] ELSE Null]

\* lines 338-341 of _extract_statement_values: working capital falls back to
\* current assets less current liabilities
Extracted(st) ==
    IF /\ st.working_capital = Null
       /\ st.current_assets # Null
       /\ st.current_liabilities # Null
    THEN [st EXCEPT !.working_capital =
                 RMinus(st.current_assets, st.current_liabilities)]
    ELSE st

\* the statement of years[0], if there is such a year
LatestOf(a) == IF a.years >= 1 THEN Extracted(a.latest) ELSE NoStatement

\* the statement of years[1], if there is such a year
PreviousOf(a) == IF a.years >= 2 THEN Extracted(a.previous) ELSE NoStatement

OptBool(b) == <<b>>
OptInt(n) == <<n>>

\* `x > y` between optional numbers, None when one of them is missing
Greater(x, y) == IF x = Null \/ y = Null THEN Null ELSE OptBool(RLess(y, x))
Smaller(x, y) == Greater(y, x)
AtMost(x, y) == IF x = Null \/ y = Null THEN Null ELSE OptBool(RLeq(x, y))

CountOf(signals, wanted(_)) ==
    Cardinality({k \in DOMAIN signals : wanted(signals[k])})

(***************************************************************************)
(* _build_ratio_dashboard: Altman Z, lines 429-453.                        *)
(***************************************************************************)
AltmanComponents(latest, market_cap) ==
    [working_capital_to_assets |->
        StockSafeDiv(latest.working_capital, latest.total_assets),
     retained_earnings_to_assets |->
        StockSafeDiv(latest.retained_earnings, latest.total_assets),
     ebit_to_assets |-> StockSafeDiv(latest.ebit, latest.total_assets),
     market_value_equity_to_total_liabilities |->
        StockSafeDiv(market_cap, latest.total_liabilities),
     sales_to_assets |-> StockSafeDiv(latest.revenue, latest.total_assets)]

\* lines 437-445
AltmanScore(c) ==
    IF \E k \in DOMAIN c : c[k] = Null THEN Null
    ELSE RPlus(RPlus(RPlus(RPlus(RTimes(R(12, 10), c.working_capital_to_assets),
                                 RTimes(R(14, 10), c.retained_earnings_to_assets)),
                           RTimes(R(33, 10), c.ebit_to_assets)),
                     RTimes(R(6, 10), c.market_value_equity_to_total_liabilities)),
               RTimes(RInt(1), c.sales_to_assets))

\* zones with the upper threshold counted as Safe
AltmanZoneSafeAtThreshold(altman_score) ==
    IF altman_score = Null THEN "Unknown"
    ELSE IF RLeq(R(299, 100), altman_score) THEN "Safe"
    ELSE IF RLeq(R(181, 100), altman_score) THEN "Grey"
    ELSE "Distress"

\* lines 446-453
AltmanZone(altman_score) ==
    IF altman_score = Null THEN "Unknown"
    ELSE IF RLess(R(299, 100), altman_score) THEN "Safe"
    ELSE IF RLeq(R(181, 100), altman_score) THEN "Grey"
    ELSE "Distress"

(***************************************************************************)
(* _build_ratio_dashboard: Piotroski F, lines 455-486.                     *)
(***************************************************************************)
DashboardSignals(latest, previous) ==
    LET roa == StockSafeDiv(latest.net_income, latest.total_assets)
        previous_roa == StockSafeDiv(previous.net_income, previous.total_assets)
        current_ratio == StockSafeDiv(latest.current_assets, latest.current_liabilities)
        previous_current_ratio ==
            StockSafeDiv(previous.current_assets, previous.current_liabilities)
        current_debt_ratio == StockSafeDiv(latest.long_term_debt, latest.total_assets)
        previous_debt_ratio ==
            StockSafeDiv(previous.long_term_debt, previous.total_assets)
        gross_margin == StockSafeDiv(latest.gross_profit, latest.revenue)
        previous_gross_margin == StockSafeDiv(previous.gross_profit, previous.revenue)
        asset_turnover == StockSafeDiv(latest.revenue, latest.total_assets)
        previous_asset_turnover == StockSafeDiv(previous.revenue, previous.total_assets)
    IN  [positive_roa |-> Greater(roa, IF roa = Null THEN Null ELSE RZero),
         positive_operating_cash_flow |->
            Greater(latest.operating_cash_flow,
                    IF latest.operating_cash_flow = Null THEN Null ELSE RZero),
         improving_roa |-> Greater(roa, previous_roa),
         operating_cash_flow_exceeds_net_income |->
            Greater(latest.operating_cash_flow, latest.net_income),
         lower_leverage |-> Smaller(current_debt_ratio, previous_debt_ratio),
         improving_current_ratio |-> Greater(current_ratio, previous_current_ratio),
         no_share_dilution |->
            AtMost(latest.shares_outstanding, previous.shares_outstanding),
         improving_gross_margin |-> Greater(gross_margin, previous_gross_margin),
         improving_asset_turnover |-> Greater(asset_turnover, previous_asset_turnover)]

\* lines 474-477
DashboardPiotroskiScore(signals) ==
    IF CountOf(signals, LAMBDA s : s # Null) = 0 THEN Null
    ELSE OptInt(CountOf(signals, LAMBDA s : s = OptBool(TRUE)))

\* lines 479-486
PiotroskiLabel(piotroski_score) ==
    IF piotroski_score = Null THEN "Unknown"
    ELSE IF piotroski_score[1] >= 7 THEN "Strong"
    ELSE IF piotroski_score[1] >= 4 THEN "Average"
    ELSE "Weak"

\* the part of the returned dict that holds the two scores
_build_ratio_dashboard(a) ==
    LET latest == LatestOf(a)
        previous == PreviousOf(a)
        altman_components == AltmanComponents(latest, a.market_cap)
        altman_score == AltmanScore(altman_components)
        piotroski_signals == DashboardSignals(latest, previous)
        piotroski_score == DashboardPiotroskiScore(piotroski_signals)
    IN  [altman_z_score |->
            [score |-> altman_score,
             zone |-> AltmanZone(altman_score),
             components |-> altman_components],
         piotroski_f_score |->
            [score |-> piotroski_score,
             max_score |-> 9,
             available_checks |-> CountOf(piotroski_signals, LAMBDA s : s # Null),
             label |-> PiotroskiLabel(piotroski_score),
             signals |-> piotroski_signals]]

BuildRatioDashboard ==
    /\ stockPc = "call"
    /\ stockArgs.fn = "_build_ratio_dashboard"
    /\ stockOut' = _build_ratio_dashboard(stockArgs)
    /\ stockPc' = "returned"
    /\ UNCHANGED <<stockArgs, stockLocals>>
    /\ UNCHANGED <<portfolioVars, scrVars, coreVars>>

(***************************************************************************)
(* ScreenerService._piotroski_score, screener_service.py lines 495-567.    *)
(***************************************************************************)
\* `x / y if x is not None and y not in (None, 0) else None`
RatioOrNone(x, y) ==
    IF x = Null \/ y = Null THEN Null
    ELSE IF y = RZero THEN Null
    ELSE RDiv(x, y)

\* `a is not None and b is not None and a > b`: a bool, never None
BothAndGreater(x, y) == x # Null /\ y # Null /\ RLess(y, x)

\* lines 551-561
ScreenerChecks(latest, previous) ==
    LET roa == RatioOrNone(latest.net_income, latest.total_assets)
        prior_roa == RatioOrNone(previous.net_income, previous.total_assets)
        current_ratio == RatioOrNone(latest.current_assets, latest.current_liabilities)
        prior_current_ratio ==
            RatioOrNone(previous.current_assets, previous.current_liabilities)
        gross_margin == RatioOrNone(latest.gross_profit, latest.revenue)
        prior_gross_margin == RatioOrNone(previous.gross_profit, previous.revenue)
        asset_turnover == RatioOrNone(latest.revenue, latest.total_assets)
        prior_asset_turnover == RatioOrNone(previous.revenue, previous.total_assets)
        ocf == latest.operating_cash_flow
    IN  <<OptBool(roa # Null /\ RPos(roa)),
          OptBool(ocf # Null /\ RPos(ocf)),
          OptBool(BothAndGreater(roa, prior_roa)),
          OptBool(BothAndGreater(ocf, latest.net_income)),
          OptBool(BothAndGreater(previous.long_term_debt, latest.long_term_debt)),
          OptBool(BothAndGreater(current_ratio, prior_current_ratio)),
          OptBool(/\ latest.shares_outstanding # Null
                  /\ previous.shares_outstanding # Null
                  /\ RLeq(latest.shares_outstanding, previous.shares_outstanding)),
          OptBool(BothAndGreater(gross_margin, prior_gross_margin)),
          OptBool(BothAndGreater(asset_turnover, prior_asset_turnover))>>

\* lines 495-567; the statements are read unextracted, by _row_value
_piotroski_score(a) ==
    IF a.years < 2 THEN Null
    ELSE LET checks == ScreenerChecks(a.latest, a.previous)
         IN  IF CountOf(checks, LAMBDA c : c # Null) = 0 THEN Null
             ELSE OptInt(CountOf(checks, LAMBDA c : c = OptBool(TRUE)))

PiotroskiScore ==
    /\ stockPc = "call"
    /\ stockArgs.fn = "_piotroski_score"
    /\ stockOut' = [score |-> _piotroski_score(stockArgs)]
    /\ stockPc' = "returned"
    /\ UNCHANGED <<stockArgs, stockLocals>>
    /\ UNCHANGED <<portfolioVars, scrVars, coreVars>>

(***************************************************************************)
(* The calls of the ratio operations.                                      *)
(***************************************************************************)
\* statements that vary what the Altman components need
AltmanStatements ==
    { Statement([working_capital |-> wc, current_assets |-> ca,
                 current_liabilities |-> RInt(20), retained_earnings |-> re,
                 ebit |-> eb, revenue |-> rev, total_assets |-> ta,
                 total_liabilities |-> tl]) :
        wc \in {Null, RZero, RInt(50)}, ca \in {Null, RInt(50)},
        re \in {Null, RZero, RInt(-50)}, eb \in {Null, RZero, RInt(10)},
        rev \in {Null, RInt(180), RInt(181), RInt(299), RInt(300)},
        ta \in {Null, RZero, RInt(100)}, tl \in {Null, RZero, RInt(100)} }

MarketCaps == {Null, RZero, RInt(100)}

\* the year before the latest one, complete
PriorStatement ==
    Statement([net_income |-> RInt(5), total_assets |-> RInt(100),
               long_term_debt |-> RInt(20), current_assets |-> RInt(40),
               current_liabilities |-> RInt(20), shares_outstanding |-> RInt(10),
               gross_profit |-> RInt(30), revenue |-> RInt(90),
               operating_cash_flow |-> RInt(8)])

\* statements that vary what the Piotroski signals need
PiotroskiStatements ==
    { Statement([net_income |-> ni, operating_cash_flow |-> ocf,
                 long_term_debt |-> ltd, current_assets |-> ca,
                 current_liabilities |-> RInt(20), shares_outstanding |-> sh,
                 gross_profit |-> gp, revenue |-> rev, total_assets |-> ta]) :
        ni \in {Null, RInt(-5), RInt(10)}, ocf \in {Null, RInt(5), RInt(20)},
        ltd \in {Null, RInt(10), RInt(30)}, ca \in {Null, RInt(30), RInt(50)},
        sh \in {Null, RInt(10), RInt(12)}, gp \in {Null, RInt(20), RInt(40)},
        rev \in {Null, RInt(80), RInt(100)}, ta \in {Null, RZero, RInt(100)} }

\* statements of a company whose filings carry none of the metrics, or only
\* metrics no signal can use alone
BareStatements ==
    {NoStatement,
     Statement([total_liabilities |-> RInt(100)]),
     Statement([total_assets |-> RZero, net_income |-> RInt(10)]),
     Statement([gross_profit |-> RInt(40)])}

StatementYears == 0 .. 2

DashboardCalls ==
    [fn : {"_build_ratio_dashboard"}, years : {1}, latest : AltmanStatements,
     previous : {NoStatement}, market_cap : MarketCaps]
    \cup
    [fn : {"_build_ratio_dashboard"}, years : {2}, latest : PiotroskiStatements,
     previous : {NoStatement, PriorStatement}, market_cap : {Null}]
    \cup
    [fn : {"_build_ratio_dashboard"}, years : StatementYears,
     latest : BareStatements, previous : BareStatements \cup {PriorStatement},
     market_cap : {Null}]

PiotroskiCalls ==
    [fn : {"_piotroski_score"}, years : {2}, latest : PiotroskiStatements,
     previous : {NoStatement, PriorStatement}]
    \cup
    [fn : {"_piotroski_score"}, years : StatementYears,
     latest : BareStatements, previous : BareStatements \cup {PriorStatement}]

RatioCalls == SafeDivCalls \cup DashboardCalls \cup PiotroskiCalls

RatioNext == SafeDiv \/ BuildRatioDashboard \/ PiotroskiScore

InitRatios ==
    /\ TaxIdle
    /\ DbInit
    /\ InsIdle
    /\ ScreenerIdle
    /\ StockCall(RatioCalls)
    /\ CoreIdle

SpecRatios == InitRatios /\ [][RatioNext]_vars

(***************************************************************************)
(* C18                                                                     *)
(***************************************************************************)
SafeDivReturned == stockPc = "returned" /\ stockArgs.fn = "_safe_div"

DashboardReturned ==
    stockPc = "returned" /\ stockArgs.fn = "_build_ratio_dashboard"

\* (12 c1 + 14 c2 + 33 c3 + 6 c4 + 10 c5) / 10
C19_WeightedSum(c) ==
    RDiv(RPlus(RPlus(RPlus(RPlus(RTimes(RInt(12), c.working_capital_to_assets),
                                 RTimes(RInt(14), c.retained_earnings_to_assets)),
                           RTimes(RInt(33), c.ebit_to_assets)),
                     RTimes(RInt(6), c.market_value_equity_to_total_liabilities)),
               RTimes(RInt(10), c.sales_to_assets)),
         RInt(10))

\* C19: in the ratio dashboard, one null Altman component makes the score
\* null and the zone "Unknown"; with all five present the score is
\* 1.2 c1 + 1.4 c2 + 3.3 c3 + 0.6 c4 + 1.0 c5 and the zone is Safe exactly
\* above 2.99, Grey exactly from 1.81 to 2.99 inclusive, Distress exactly
\* below 1.81.
C19_AltmanNullPropagationAndZones ==
    DashboardReturned =>
        LET c == stockOut.altman_z_score.components
            score == stockOut.altman_z_score.score
            zone == stockOut.altman_z_score.zone
        IN  IF \E k \in DOMAIN c : c[k] = Null
            THEN score = Null /\ zone = "Unknown"
            ELSE /\ score = C19_WeightedSum(c)
                 /\ (zone = "Safe") <=> RLess(R(299, 100), score)
                 /\ (zone = "Grey") <=>
                        (RLeq(R(181, 100), score) /\ RLeq(score, R(299, 100)))
                 /\ (zone = "Distress") <=> RLess(score, R(181, 100))

\* a dashboard whose Altman score is exactly 2.99 has returned, zone Grey
C19_Witness ==
    /\ DashboardReturned
    /\ stockOut.altman_z_score.score = R(299, 100)
    /\ stockOut.altman_z_score.zone = "Grey"

(***************************************************************************)
(* C20                                                                     *)
(***************************************************************************)
PiotroskiReturned == stockPc = "returned" /\ stockArgs.fn = "_piotroski_score"

\* the number of the nine screener signals whose operands the statements hold
ScreenerEvaluable(latest, previous) ==
    LET roa == RatioOrNone(latest.net_income, latest.total_assets)
        prior_roa == RatioOrNone(previous.net_income, previous.total_assets)
        current_ratio == RatioOrNone(latest.current_assets, latest.current_liabilities)
        prior_current_ratio ==
            RatioOrNone(previous.current_assets, previous.current_liabilities)
        gross_margin == RatioOrNone(latest.gross_profit, latest.revenue)
        prior_gross_margin == RatioOrNone(previous.gross_profit, previous.revenue)
        asset_turnover == RatioOrNone(latest.revenue, latest.total_assets)
        prior_asset_turnover == RatioOrNone(previous.revenue, previous.total_assets)
        ocf == latest.operating_cash_flow
        both(x, y) == x # Null /\ y # Null
        present == <<roa # Null,
                     ocf # Null,
                     both(roa, prior_roa),
                     both(ocf, latest.net_income),
                     both(latest.long_term_debt, previous.long_term_debt),
                     both(current_ratio, prior_current_ratio),
                     both(latest.shares_outstanding, previous.shares_outstanding),
                     both(gross_margin, prior_gross_margin),
                     both(asset_turnover, prior_asset_turnover)>>
    IN  Cardinality({i \in DOMAIN present : present[i]})

\* the dashboard's part: the score is the count of true signals, or null when
\* no signal is evaluable, and the label follows the score
C20_DashboardScoreAndLabel ==
    DashboardReturned =>
        LET f == stockOut.piotroski_f_score
            evaluable == CountOf(f.signals, LAMBDA s : s # Null)
            true == CountOf(f.signals, LAMBDA s : s = OptBool(TRUE))
        IN  /\ IF evaluable = 0 THEN f.score = Null
               ELSE f.score = OptInt(true) /\ true \in 0 .. 9
            /\ (f.label = "Unknown") <=> (f.score = Null)
            /\ (f.label = "Strong") <=> (f.score # Null /\ f.score[1] >= 7)
            /\ (f.label = "Average") <=>
                   (f.score # Null /\ f.score[1] >= 4 /\ f.score[1] <= 6)
            /\ (f.label = "Weak") <=> (f.score # Null /\ f.score[1] < 4)

\* the screener's part, for a company with two statement years
C20_ScreenerScore ==
    (PiotroskiReturned /\ stockArgs.years >= 2) =>
        LET checks == ScreenerChecks(stockArgs.latest, stockArgs.previous)
            true == CountOf(checks, LAMBDA c : c = OptBool(TRUE))
        IN  IF ScreenerEvaluable(stockArgs.latest, stockArgs.previous) = 0
            THEN stockOut.score = Null
            ELSE stockOut.score = OptInt(true) /\ true \in 0 .. 9

\* C20: in the ratio dashboard and in the screener's _piotroski_score alike,
\* the Piotroski score is the number of true signals among the nine, within
\* 0..9, when at least one signal is evaluable from the statements, and null
\* when none is; the dashboard's label is Strong from 7, Average from 4 to 6,
\* Weak below 4 and Unknown exactly for a null score.
C20_ScoreIsCountOrNull == C20_DashboardScoreAndLabel /\ C20_ScreenerScore

(***************************************************************************)
(* StockService._statement_value: the lookup of one canonical metric in    *)
(* the rows of a statement section.  A metric name is the sequence of its  *)
(* characters; a row is [metric, values], values being the dict of the     *)
(* row reduced to the entry of the requested year ([dict |-> TRUE, value]) *)
(* or something that is no dict ([dict |-> FALSE, value |-> Null]).        *)
(***************************************************************************)
MaxRows == 2

UpperCase ==
    <<"A", "B", "C", "D", "E", "F", "G", "H", "I", "J", "K", "L", "M", "N", "O", "P", "Q", "R", "S", "T", "U", "V", "W", "X", "Y", "Z">>

LowerCase ==
    <<"a", "b", "c", "d", "e", "f", "g", "h", "i", "j", "k", "l", "m", "n", "o", "p", "q", "r", "s", "t", "u", "v", "w", "x", "y", "z">>

Digits == {"0", "1", "2", "3", "4", "5", "6", "7", "8", "9"}

\* str.lower of one character
Lower(ch) ==
    IF \E i \in DOMAIN UpperCase : UpperCase[i] = ch
    THEN LowerCase[CHOOSE i \in DOMAIN UpperCase : UpperCase[i] = ch]
    ELSE ch

\* str.isalnum of one lowered character
IsAlnum(ch) == ch \in Digits \/ \E i \in DOMAIN LowerCase : LowerCase[i] = ch

RECURSIVE _norm_metric(_)
\* lines 189-193: the lowered name without its non-alphanumeric characters
_norm_metric(name) ==
    IF name = <<>> THEN <<>>
    ELSE LET ch == Lower(Head(name))
         IN  IF IsAlnum(ch) THEN <<ch>> \o _norm_metric(Tail(name))
             ELSE _norm_metric(Tail(name))

\* lines 219-231
_statement_value(rows, year, candidates) ==
    IF year = None THEN Null
    ELSE LET candidate_set ==
                 {_norm_metric(candidates[k]) : k \in DOMAIN candidates}
             hits == {i \in DOMAIN rows :
                          /\ _norm_metric(rows[i].metric) \in candidate_set
                          /\ rows[i].values.dict}
         IN  IF hits = {} THEN Null
             ELSE rows[CHOOSE i \in hits : \A j \in hits : i <= j].values.value

TotalRevenue ==
    <<"T", "o", "t", "a", "l", " ", "R", "e", "v", "e", "n", "u", "e">>

OperatingRevenue ==
    <<"O", "p", "e", "r", "a", "t", "i", "n", "g", " ", "R", "e", "v", "e", "n", "u", "e">>

Revenue ==
    <<"R", "e", "v", "e", "n", "u", "e">>

NetSales ==
    <<"N", "e", "t", " ", "S", "a", "l", "e", "s">>

Sales ==
    <<"S", "a", "l", "e", "s">>

\* line 241: the candidates of "revenue", in their order
RevenueCandidates == <<TotalRevenue, OperatingRevenue, Revenue, NetSales, Sales>>

SpelledTotalRevenue ==
    <<"T", "o", "t", "a", "l", " ", "R", "e", "v", "e", "n", "u", "e">>

SpelledLooseTotalRevenue ==
    <<"t", "o", "t", "a", "l", " ", " ", "r", "e", "v", "e", "n", "u", "e">>

SpelledOperatingRevenue ==
    <<"O", "p", "e", "r", "a", "t", "i", "n", "g", " ", "R", "e", "v", "e", "n", "u", "e">>

SpelledNetSales ==
    <<"N", "E", "T", " ", "S", "A", "L", "E", "S">>

SpelledRevenue ==
    <<"R", "e", "v", "e", "n", "u", "e">>

SpelledGrossProfit ==
    <<"G", "r", "o", "s", "s", " ", "P", "r", "o", "f", "i", "t">>

\* the metric names the providers' rows carry; <<>> is a row without a name
Spellings ==
    {SpelledTotalRevenue, SpelledLooseTotalRevenue, SpelledOperatingRevenue,
     SpelledNetSales, SpelledRevenue, SpelledGrossProfit, <<>>}

RowValues ==
    {[dict |-> TRUE, value |-> RInt(10)], [dict |-> TRUE, value |-> RInt(20)],
     [dict |-> TRUE, value |-> Null], [dict |-> FALSE, value |-> Null]}

StatementRows == [metric : Spellings, values : RowValues]

StatementValueCalls ==
    [fn : {"_statement_value"}, rows : SeqsUpTo(StatementRows, MaxRows),
     year : {"2024", None}, candidates : {RevenueCandidates}]

\* the "revenue" entry of _extract_statement_values, lines 238-242
StatementValue ==
    /\ stockPc = "call"
    /\ stockArgs.fn = "_statement_value"
    /\ stockOut' = [value |-> _statement_value(stockArgs.rows, stockArgs.year,
                                               stockArgs.candidates)]
    /\ stockPc' = "returned"
    /\ UNCHANGED <<stockArgs, stockLocals>>
    /\ UNCHANGED <<portfolioVars, scrVars, coreVars>>

StatementNext == StatementValue

InitStatements ==
    /\ TaxIdle
    /\ DbInit
    /\ InsIdle
    /\ ScreenerIdle
    /\ StockCall(StatementValueCalls)
    /\ CoreIdle

SpecStatements == InitStatements /\ [][StatementNext]_vars

(***************************************************************************)
(* C21                                                                     *)
(***************************************************************************)
StatementValueReturned ==
    stockPc = "returned" /\ stockArgs.fn = "_statement_value"

\* the candidates a row's metric matches, ignoring case and whitespace
C21_Aliases(row, candidates) ==
    {k \in DOMAIN candidates :
         _norm_metric(candidates[k]) = _norm_metric(row.metric)}

\* the rows of the section that match a candidate and hold a dict of values
C21_Matching(rows, candidates) ==
    {i \in DOMAIN rows : C21_Aliases(rows[i], candidates) # {} /\ rows[i].values.dict}

\* the part that holds: without a matching row, or without a year, the value
\* is null, and with a matching row it is the value of a matching row
C21_ValueOfSomeMatchingRow ==
    StatementValueReturned =>
        LET rows == stockArgs.rows
            matching == C21_Matching(rows, stockArgs.candidates)
        IN  IF stockArgs.year = None \/ matching = {}
            THEN stockOut.value = Null
            ELSE \E i \in matching : stockOut.value = rows[i].values.value

\* C21: when several rows of a section match aliases of one metric, the
\* extractor takes the value of the row whose alias comes first in the
\* candidate list, whatever the order of the rows; names are compared without
\* case and whitespace, and a metric without a matching row yields null.
C21_FirstAliasWins ==
    StatementValueReturned =>
        LET rows == stockArgs.rows
            cands == stockArgs.candidates
            matching == C21_Matching(rows, cands)
            first(i) == CHOOSE k \in C21_Aliases(rows[i], cands) :
                            \A m \in C21_Aliases(rows[i], cands) : k <= m
        IN  IF stockArgs.year = None \/ matching = {}
            THEN stockOut.value = Null
            ELSE \E i \in matching :
                    /\ \A j \in matching : first(i) <= first(j)
                    /\ stockOut.value = rows[i].values.value

(***************************************************************************)
(* core/cache.py: MemoryTTLCache and CacheClient without a Redis           *)
(* connection (CacheClient._redis is None until connect() succeeds).  A    *)
(* Python value is Null for None or [type, body]; a stored entry is        *)
(* [expires_at, value], value being the JSON text json.dumps produced.     *)
(***************************************************************************)
MaxClock == 3

\* json.dumps: a tuple is written as an array, None as null
Dumps(value) ==
    IF value = Null THEN [json |-> "null", body |-> ""]
    ELSE IF value.type \in {"tuple", "list"}
    THEN [json |-> "array", body |-> value.body]
    ELSE IF value.type = "dict" THEN [json |-> "object", body |-> value.body]
    ELSE [json |-> "string", body |-> value.body]

\* json.loads
Loads(text) ==
    IF text.json = "null" THEN Null
    ELSE IF text.json = "array" THEN [type |-> "list", body |-> text.body]
    ELSE IF text.json = "object" THEN [type |-> "dict", body |-> text.body]
    ELSE [type |-> "str", body |-> text.body]

\* MemoryTTLCache.get that still answers at the tick after the expiry
MemoryGetLate(st, key, now) ==
    IF st[key] = Null THEN Null
    ELSE IF now > st[key].expires_at + 1 THEN Null
    ELSE Loads(st[key].value)

\* MemoryTTLCache.get, lines 19-27: what it returns
MemoryGet(st, key, now) ==
    IF st[key] = Null THEN Null
    ELSE IF now > st[key].expires_at THEN Null
    ELSE Loads(st[key].value)

\* MemoryTTLCache.get, line 25: the store it leaves
MemoryGetStore(st, key, now) ==
    IF st[key] # Null /\ now > st[key].expires_at
    THEN [st EXCEPT ![key] = Null]
    ELSE st

\* MemoryTTLCache.set, line 30
MemorySet(st, key, value, ttl_seconds, now) ==
    [st EXCEPT ![key] = [expires_at |-> now + ttl_seconds, value |-> Dumps(value)]]

\* what the producers hand back
Produced ==
    {Null, [type |-> "str", body |-> "a"], [type |-> "tuple", body |-> "b"]}

Ttls == {1, 2}

\* time passes
Tick ==
    /\ clock < MaxClock
    /\ clock' = clock + 1
    /\ UNCHANGED <<store, cacheCalls, requests, served>>
    /\ UNCHANGED <<portfolioVars, scrVars, stockVars>>

Idle(c) == cacheCalls[c].pc = "idle"

\* CacheClient.get, lines 52-59
CacheGet(c, key) ==
    /\ Idle(c)
    /\ store' = MemoryGetStore(store, key, clock)
    /\ cacheCalls' = [cacheCalls EXCEPT ![c] =
           [pc |-> "returned", op |-> "get", key |-> key,
            result |-> MemoryGet(store, key, clock), invoked |-> 0]]
    /\ UNCHANGED <<clock, requests, served>>
    /\ UNCHANGED <<portfolioVars, scrVars, stockVars>>

\* CacheClient.remember, lines 77-80: up to the return of a hit or to the
\* suspension in `await producer()`
RememberBegin(c, key, ttl_seconds) ==
    /\ Idle(c)
    /\ LET cached == MemoryGet(store, key, clock)
       IN  cacheCalls' = [cacheCalls EXCEPT ![c] =
               IF cached # Null
               THEN [pc |-> "returned", op |-> "remember", key |-> key,
                     ttl_seconds |-> ttl_seconds, result |-> cached,
                     invoked |-> 0]
               ELSE [pc |-> "producing", op |-> "remember", key |-> key,
                     ttl_seconds |-> ttl_seconds, result |-> Null,
                     invoked |-> 1]]
    /\ store' = MemoryGetStore(store, key, clock)
    /\ UNCHANGED <<clock, requests, served>>
    /\ UNCHANGED <<portfolioVars, scrVars, stockVars>>

Producing(c) == cacheCalls[c].pc = "producing" /\ cacheCalls[c].op = "remember"

\* lines 80-82: the producer returns `fresh`
ProducerReturns(c, fresh) ==
    /\ Producing(c)
    /\ store' = MemorySet(store, cacheCalls[c].key, fresh,
                          cacheCalls[c].ttl_seconds, clock)
    /\ cacheCalls' = [cacheCalls EXCEPT ![c].pc = "returned", ![c].result = fresh]
    /\ UNCHANGED <<clock, requests, served>>
    /\ UNCHANGED <<portfolioVars, scrVars, stockVars>>

\* line 80: the producer raises, and so does remember
ProducerRaises(c) ==
    /\ Producing(c)
    /\ cacheCalls' = [cacheCalls EXCEPT ![c].pc = "raised"]
    /\ UNCHANGED <<clock, store, requests, served>>
    /\ UNCHANGED <<portfolioVars, scrVars, stockVars>>

\* the caller goes on after its call
CallEnds(c) ==
    /\ cacheCalls[c].pc \in {"returned", "raised"}
    /\ cacheCalls' = [cacheCalls EXCEPT ![c] = [pc |-> "idle"]]
    /\ UNCHANGED <<clock, store, requests, served>>
    /\ UNCHANGED <<portfolioVars, scrVars, stockVars>>

CacheNext ==
    \/ Tick
    \/ \E c \in Callers, key \in Keys : CacheGet(c, key)
    \/ \E c \in Callers, key \in Keys, ttl_seconds \in Ttls :
           RememberBegin(c, key, ttl_seconds)
    \/ \E c \in Callers, fresh \in Produced : ProducerReturns(c, fresh)
    \/ \E c \in Callers : ProducerRaises(c)
    \/ \E c \in Callers : CallEnds(c)

InitCache ==
    /\ TaxIdle
    /\ DbInit
    /\ InsIdle
    /\ ScreenerIdle
    /\ StockIdle
    /\ CoreIdle

SpecCache == InitCache /\ [][CacheNext]_vars

(***************************************************************************)
(* C27                                                                     *)
(***************************************************************************)
\* the entry under `key` is live: present and not past its expiry
C27_Live(key) == store[key] # Null /\ clock <= store[key].expires_at

\* caller c's call moves from state `from` to state `to` in this step
C27_Moves(c, from, to) == cacheCalls[c].pc = from /\ cacheCalls'[c].pc = to

C27_RememberStep(c) ==
    LET call == cacheCalls'[c]
        key == call.key
    IN  /\ (C27_Moves(c, "idle", "returned") /\ call.op = "remember") =>
              /\ C27_Live(key)
              /\ Loads(store[key].value) # Null
              /\ call.result = Loads(store[key].value)
              /\ call.invoked = 0
              /\ store' = store
        /\ C27_Moves(c, "idle", "producing") =>
              /\ ~(C27_Live(key) /\ Loads(store[key].value) # Null)
              /\ call.invoked = 1
        /\ C27_Moves(c, "producing", "returned") =>
              /\ call.invoked = 1
              /\ store' = [store EXCEPT ![key] =
                              [expires_at |-> clock + call.ttl_seconds,
                               value |-> Dumps(call.result)]]
        /\ C27_Moves(c, "producing", "raised") =>
              /\ call.invoked = 1
              /\ store' = store

C27_GetStep(c) ==
    LET call == cacheCalls'[c]
        key == call.key
    IN  (C27_Moves(c, "idle", "returned") /\ call.op = "get") =>
            /\ call.invoked = 0
            /\ IF C27_Live(key)
               THEN call.result = Loads(store[key].value) /\ store' = store
               ELSE call.result = Null /\ store' = [store EXCEPT ![key] = Null]

\* C27: remember returns the cached value of a live non-null entry without
\* invoking the producer; otherwise it invokes the producer once, stores the
\* result under the key with the given TTL and returns it, and a producer
\* that raises stores nothing.  The in-memory get returns a value until the
\* clock passes its expiry; after that it returns null and removes the entry.
C27_RememberComputesOnMiss ==
    [][\A c \in Callers : C27_RememberStep(c) /\ C27_GetStep(c)]_vars

\* one caller's remember has been answered from an entry that another call
\* stored earlier, at a later time and without invoking the producer
C27_Witness ==
    \E c \in Callers :
        /\ cacheCalls[c].pc = "returned"
        /\ cacheCalls[c].op = "remember"
        /\ cacheCalls[c].invoked = 0
        /\ cacheCalls[c].result = [type |-> "list", body |-> "b"]
        /\ clock = store[cacheCalls[c].key].expires_at

(***************************************************************************)
(* StockService._panel_swr over the in-memory cache.  The clock counts     *)
(* ticks of 1/TicksPerSecond seconds, so that datetime.now() and           *)
(* time.time() fall between whole seconds; the policy of the panel is      *)
(* FreshTtl and StaleTtl seconds.  A cached panel is the dict              *)
(* {"data", "meta": {"cached_at"}}, cached_at surviving the isoformat      *)
(* round trip unchanged.                                                   *)
(***************************************************************************)
TicksPerSecond == 2
FreshTtl == 1
StaleTtl == 1

\* the last tick of the modelled time
PanelHorizon == (FreshTtl + StaleTtl + 2) * TicksPerSecond

PanelKey == "k1"

\* int((now - cached_at).total_seconds()), never negative: line 660
AgeSeconds(cached_at, now) ==
    IF now <= cached_at THEN 0 ELSE (now - cached_at) \div TicksPerSecond

\* a freshness test that counts the last fresh second as stale
FreshnessStaleEarly(cached_at, now) ==
    LET age_seconds == AgeSeconds(cached_at, now)
    IN  IF age_seconds > FreshTtl + StaleTtl THEN "expired"
        ELSE IF age_seconds >= FreshTtl THEN "stale"
        ELSE "fresh"

\* _panel_freshness_meta, lines 653-666: freshness_status
Freshness(cached_at, now) ==
    LET age_seconds == AgeSeconds(cached_at, now)
    IN  IF age_seconds > FreshTtl + StaleTtl THEN "expired"
        ELSE IF age_seconds > FreshTtl THEN "stale"
        ELSE "fresh"

PanelData == {"d1", "d2"}

PanelTick ==
    /\ clock < PanelHorizon
    /\ clock' = clock + 1
    /\ UNCHANGED <<store, cacheCalls, requests, served>>
    /\ UNCHANGED <<portfolioVars, scrVars, stockVars>>

\* lines 691-712: up to the return of a hit or to `await producer()`
PanelBegin(c) ==
    /\ Idle(c)
    /\ LET now == clock
           cached == MemoryGet(store, PanelKey, clock)
           served_from_cache ==
               /\ cached # Null
               /\ cached.type = "dict"
               /\ Freshness(cached.body.cached_at, now) # "expired"
       IN  cacheCalls' = [cacheCalls EXCEPT ![c] =
               IF served_from_cache
               THEN [pc |-> "returned", op |-> "_panel_swr", now |-> now,
                     cache_status |->
                         IF Freshness(cached.body.cached_at, now) = "stale"
                         THEN "hit_stale" ELSE "hit_fresh",
                     data |-> cached.body.data, invoked |-> 0]
               ELSE [pc |-> "producing", op |-> "_panel_swr", now |-> now,
                     cache_status |-> "none", data |-> "none", invoked |-> 1]]
    /\ store' = MemoryGetStore(store, PanelKey, clock)
    /\ UNCHANGED <<clock, requests, served>>
    /\ UNCHANGED <<portfolioVars, scrVars, stockVars>>

PanelProducing(c) ==
    cacheCalls[c].pc = "producing" /\ cacheCalls[c].op = "_panel_swr"

\* lines 712-735: the producer returns and the panel is stored
PanelProducerReturns(c, built_data) ==
    /\ PanelProducing(c)
    /\ store' = MemorySet(store, PanelKey,
                          [type |-> "dict",
                           body |-> [data |-> built_data,
                                     cached_at |-> cacheCalls[c].now]],
                          (FreshTtl + StaleTtl) * TicksPerSecond, clock)
    /\ cacheCalls' = [cacheCalls EXCEPT ![c].pc = "returned",
                                        ![c].cache_status = "miss",
                                        ![c].data = built_data]
    /\ UNCHANGED <<clock, requests, served>>
    /\ UNCHANGED <<portfolioVars, scrVars, stockVars>>

\* line 712: the producer raises
PanelProducerRaises(c) ==
    /\ PanelProducing(c)
    /\ cacheCalls' = [cacheCalls EXCEPT ![c].pc = "raised"]
    /\ UNCHANGED <<clock, store, requests, served>>
    /\ UNCHANGED <<portfolioVars, scrVars, stockVars>>

PanelNext ==
    \/ PanelTick
    \/ \E c \in Callers : PanelBegin(c)
    \/ \E c \in Callers, built_data \in PanelData : PanelProducerReturns(c, built_data)
    \/ \E c \in Callers : PanelProducerRaises(c)
    \/ \E c \in Callers : CallEnds(c)

InitPanel ==
    /\ TaxIdle
    /\ DbInit
    /\ InsIdle
    /\ ScreenerIdle
    /\ StockIdle
    /\ CoreIdle

SpecPanel == InitPanel /\ [][PanelNext]_vars

(***************************************************************************)
(* C30                                                                     *)
(***************************************************************************)
\* the panel the cache holds under the key, Null if it holds none
C30_Cached == MemoryGet(store, PanelKey, clock)

\* what a call that begins in this step must do for an entry of age `age`,
\* ages and lifetimes in the unit `unit` ticks
C30_BeginStep(c, age(_, _), unit) ==
    (cacheCalls[c].pc = "idle" /\ cacheCalls'[c].pc # "idle") =>
        LET call == cacheCalls'[c]
            a == age(C30_Cached.body.cached_at, clock)
        IN  IF C30_Cached # Null /\ a <= (FreshTtl + StaleTtl) * unit
            THEN /\ call.pc = "returned"
                 /\ call.cache_status =
                        IF a <= FreshTtl * unit THEN "hit_fresh" ELSE "hit_stale"
                 /\ call.data = C30_Cached.body.data
                 /\ call.invoked = 0
                 /\ store' = store
            ELSE call.pc = "producing" /\ call.invoked = 1

\* a producing call ends with the stored result and "miss", or raises and
\* stores nothing
C30_ProducerStep(c) ==
    /\ C27_Moves(c, "producing", "returned") =>
          LET call == cacheCalls'[c]
          IN  /\ call.cache_status = "miss"
              /\ call.invoked = 1
              /\ store'[PanelKey].value.body =
                     [data |-> call.data, cached_at |-> call.now]
              /\ store'[PanelKey].expires_at =
                     clock + (FreshTtl + StaleTtl) * TicksPerSecond
    /\ C27_Moves(c, "producing", "raised") => store' = store

C30_ExactAge(cached_at, now) == now - cached_at

\* C30: with a the age of the cached panel (now minus cached_at),
\* _panel_swr serves it as "hit_fresh" when a <= fresh_ttl and as "hit_stale"
\* when fresh_ttl < a <= fresh_ttl + stale_ttl, without invoking the producer
\* or rewriting the entry; when the entry is absent or older it invokes the
\* producer once, stores the result with cached_at = now and the hard TTL
\* fresh_ttl + stale_ttl, and returns "miss".
C30_ServedByExactAge ==
    [][\A c \in Callers :
           C30_BeginStep(c, C30_ExactAge, TicksPerSecond) /\ C30_ProducerStep(c)]_vars

\* C30, amended: the same with a the age truncated to whole seconds.
C30_ServedByWholeSeconds ==
    [][\A c \in Callers :
           C30_BeginStep(c, AgeSeconds, 1) /\ C30_ProducerStep(c)]_vars

\* a panel older than fresh_ttl by less than a second has been served fresh
C30_Witness ==
    \E c \in Callers :
        /\ cacheCalls[c].pc = "returned"
        /\ cacheCalls[c].op = "_panel_swr"
        /\ cacheCalls[c].cache_status = "hit_fresh"
        /\ store[PanelKey] # Null
        /\ cacheCalls[c].now - store[PanelKey].value.body.cached_at
               > FreshTtl * TicksPerSecond

(***************************************************************************)
(* core/rate_limit.py: RateLimitMiddleware as main.py installs it.  The    *)
(* clock counts seconds; `served` records every dispatched request with    *)
(* the status the middleware let through (200 for what call_next returns). *)
(***************************************************************************)
RateLimit == 2
WindowSeconds == 2
MaxRequests == 4

\* the last second of the modelled time
RateHorizon == WindowSeconds + 2

RECURSIVE PrunedAtWindow(_, _)
\* a pruning that already drops the timestamps exactly one window old
PrunedAtWindow(bucket, now) ==
    IF bucket # <<>> /\ now - Head(bucket) >= WindowSeconds
    THEN PrunedAtWindow(Tail(bucket), now)
    ELSE bucket

RECURSIVE Pruned(_, _)
\* lines 26-27: `while bucket and now - bucket[0] > window: popleft()`
Pruned(bucket, now) ==
    IF bucket # <<>> /\ now - Head(bucket) > WindowSeconds
    THEN Pruned(Tail(bucket), now)
    ELSE bucket

RateTick ==
    /\ clock < RateHorizon
    /\ clock' = clock + 1
    /\ UNCHANGED <<store, cacheCalls, requests, served>>
    /\ UNCHANGED <<portfolioVars, scrVars, stockVars>>

\* dispatch, lines 18-36, for a request of `ip`; health: its path ends in
\* /health
Dispatch(ip, health) ==
    /\ Len(served) < MaxRequests
    /\ IF health
       THEN /\ served' = Append(served, [ip |-> ip, health |-> TRUE,
                                         at |-> clock, status |-> 200])
            /\ UNCHANGED requests
       ELSE LET now == clock
                bucket == Pruned(requests[ip], now)
            IN  IF Len(bucket) >= RateLimit
                THEN /\ requests' = [requests EXCEPT ![ip] = bucket]
                     /\ served' = Append(served, [ip |-> ip, health |-> FALSE,
                                                  at |-> now, status |-> 429])
                ELSE /\ requests' = [requests EXCEPT ![ip] = Append(bucket, now)]
                     /\ served' = Append(served, [ip |-> ip, health |-> FALSE,
                                                  at |-> now, status |-> 200])
    /\ UNCHANGED <<clock, store, cacheCalls>>
    /\ UNCHANGED <<portfolioVars, scrVars, stockVars>>

RateNext ==
    \/ RateTick
    \/ \E ip \in Ips, health \in BOOLEAN : Dispatch(ip, health)

InitRateLimit ==
    /\ TaxIdle
    /\ DbInit
    /\ InsIdle
    /\ ScreenerIdle
    /\ StockIdle
    /\ CoreIdle

SpecRateLimit == InitRateLimit /\ [][RateNext]_vars

(***************************************************************************)
(* C29                                                                     *)
(***************************************************************************)
\* the positions in `served` of the accepted counted requests of `ip`
C29_Accepted(ip) ==
    {i \in DOMAIN served :
         served[i].ip = ip /\ ~served[i].health /\ served[i].status = 200}

\* the accepted requests of `ip` before position i that are not older than
\* the window at the time of request i
C29_Recent(ip, i) ==
    {j \in C29_Accepted(ip) : j < i /\ served[i].at - served[j].at <= WindowSeconds}

\* the positions of the counted requests of `ip`, accepted or rejected
C29_Counted(ip) == {i \in DOMAIN served : served[i].ip = ip /\ ~served[i].health}

\* the timestamps a bucket must hold: the accepted requests not older than
\* the window at the last counted request of the address, oldest first
C29_Bucket(ip) ==
    IF C29_Counted(ip) = {} THEN <<>>
    ELSE LET last == CHOOSE i \in C29_Counted(ip) : \A j \in C29_Counted(ip) : j <= i
             kept(i) == /\ i \in C29_Accepted(ip)
                        /\ served[last].at - served[i].at <= WindowSeconds
             picked == SelectSeq([i \in DOMAIN served |-> i], kept)
         IN  [k \in DOMAIN picked |-> served[picked[k]].at]

\* C29: per client address, at most `limit` accepted non-health requests
\* have timestamps within any window of `window_seconds`; a request is
\* answered 429 exactly when the bucket of its address still holds `limit`
\* timestamps not older than the window; a rejected request is not recorded;
\* requests to /health are never counted or rejected; one address never
\* affects the bucket of another.
C29_SlidingWindowPerIp ==
    /\ \A ip \in Ips, from \in 0 .. RateHorizon :
           Cardinality({i \in C29_Accepted(ip) :
                            from <= served[i].at /\ served[i].at <= from + WindowSeconds})
               <= RateLimit
    /\ \A i \in DOMAIN served :
           IF served[i].health THEN served[i].status = 200
           ELSE (served[i].status = 429) <=>
                    (Cardinality(C29_Recent(served[i].ip, i)) >= RateLimit)
    /\ \A ip \in Ips : requests[ip] = C29_Bucket(ip)

\* an address was rejected at its limit and accepted again once the window
\* had passed
C29_Witness ==
    \E i, j \in DOMAIN served :
        /\ i < j
        /\ served[i].ip = served[j].ip
        /\ served[i].status = 429
        /\ served[j].status = 200 /\ ~served[j].health

(***************************************************************************)
(* StockService._from_providers and _from_providers_with_meta, as their    *)
(* caching callers run them after a cache miss (cache.remember in quote,   *)
(* profile, history, financial_statements; _cached_provider_call_with_meta *)
(* for the variant with meta).  A provider is [ready, outcome]: what its   *)
(* _ready() does ("none": it has no _ready, as YahooFinanceProvider) and   *)
(* how the awaited method ends.                                            *)
(***************************************************************************)
\* line 150: self.providers
ProviderNames == <<"yahoo", "fmp", "alpha_vantage">>

Outcomes == {"returns", "raises", "cancelled"}

ProviderLists ==
    {<<[ready |-> "none", outcome |-> o1], [ready |-> r2, outcome |-> o2],
       [ready |-> r3, outcome |-> o3]>> :
        o1 \in Outcomes, o2 \in Outcomes, o3 \in Outcomes,
        r2 \in {"true", "false", "raises"}, r3 \in {"true", "false", "raises"}}

ProviderCalls ==
    [fn : {"_from_providers", "_from_providers_with_meta"},
     providers : ProviderLists, key : Keys, ttl_seconds : Ttls]

\* a readiness test that lets every provider through
TriedWhateverReady(provider) == TRUE

\* lines 592-598: the provider is not skipped
Tried(provider) == provider.ready # "false"

InProviders == stockArgs.fn \in {"_from_providers", "_from_providers_with_meta"}

\* lines 589-591
ProvidersBegin ==
    /\ stockPc = "call"
    /\ InProviders
    /\ stockPc' = "loop"
    /\ stockLocals' = [index |-> 1, errors |-> <<>>, attempted |-> <<>>]
    /\ UNCHANGED <<stockArgs, stockOut>>
    /\ UNCHANGED <<portfolioVars, scrVars, coreVars>>

AtProvider ==
    /\ stockPc = "loop"
    /\ InProviders
    /\ stockLocals.index <= Len(ProviderNames)

\* lines 592-596: `continue` for a provider that is not ready
ProviderSkipped ==
    /\ AtProvider
    /\ ~Tried(stockArgs.providers[stockLocals.index])
    /\ stockLocals' = [stockLocals EXCEPT !.index = @ + 1]
    /\ UNCHANGED <<stockPc, stockArgs, stockOut>>
    /\ UNCHANGED <<portfolioVars, scrVars, coreVars>>

\* lines 599-602: the method of the provider is awaited
ProviderCalled ==
    /\ AtProvider
    /\ Tried(stockArgs.providers[stockLocals.index])
    /\ stockLocals' = [stockLocals EXCEPT
                           !.attempted = Append(@, ProviderNames[stockLocals.index])]
    /\ stockPc' = "awaiting"
    /\ UNCHANGED <<stockArgs, stockOut>>
    /\ UNCHANGED <<portfolioVars, scrVars, coreVars>>

Awaited(outcome) ==
    /\ stockPc = "awaiting"
    /\ InProviders
    /\ stockArgs.providers[stockLocals.index].outcome = outcome

\* lines 603-611 and the caller's cache.set: the data of this provider is
\* returned and cached
ProviderReturns ==
    /\ Awaited("returns")
    /\ LET source == ProviderNames[stockLocals.index]
       IN  /\ stockOut' = [status |-> "returned", source |-> source,
                           fallback_used |-> stockLocals.errors # <<>>,
                           attempted_providers |-> stockLocals.attempted]
           /\ store' = MemorySet(store, stockArgs.key,
                                 [type |-> "dict", body |-> source],
                                 stockArgs.ttl_seconds, clock)
    /\ stockPc' = "returned"
    /\ UNCHANGED <<stockArgs, stockLocals>>
    /\ UNCHANGED <<clock, cacheCalls, requests, served>>
    /\ UNCHANGED <<portfolioVars, scrVars>>

\* lines 614-616: the error is noted and the next provider is tried
ProviderRaises ==
    /\ Awaited("raises")
    /\ stockLocals' = [stockLocals EXCEPT
                           !.errors = Append(@, ProviderNames[stockLocals.index]),
                           !.index = @ + 1]
    /\ stockPc' = "loop"
    /\ UNCHANGED <<stockArgs, stockOut>>
    /\ UNCHANGED <<portfolioVars, scrVars, coreVars>>

\* lines 612-613: CancelledError leaves the function at once
ProviderCancelled ==
    /\ Awaited("cancelled")
    /\ stockOut' = [status |-> "cancelled", source |-> "none",
                    fallback_used |-> stockLocals.errors # <<>>,
                    attempted_providers |-> stockLocals.attempted]
    /\ stockPc' = "raised"
    /\ UNCHANGED <<stockArgs, stockLocals>>
    /\ UNCHANGED <<portfolioVars, scrVars, coreVars>>

\* lines 617-618: HTTPException(503) after the last provider
AllProvidersFailed ==
    /\ stockPc = "loop"
    /\ InProviders
    /\ stockLocals.index > Len(ProviderNames)
    /\ stockOut' = [status |-> "503", source |-> "none",
                    fallback_used |-> stockLocals.errors # <<>>,
                    attempted_providers |-> stockLocals.attempted]
    /\ stockPc' = "raised"
    /\ UNCHANGED <<stockArgs, stockLocals>>
    /\ UNCHANGED <<portfolioVars, scrVars, coreVars>>

ProvidersNext ==
    \/ ProvidersBegin
    \/ ProviderSkipped
    \/ ProviderCalled
    \/ ProviderReturns
    \/ ProviderRaises
    \/ ProviderCancelled
    \/ AllProvidersFailed

InitProviders ==
    /\ TaxIdle
    /\ DbInit
    /\ InsIdle
    /\ ScreenerIdle
    /\ StockCall(ProviderCalls)
    /\ CoreIdle

SpecProviders == InitProviders /\ [][ProvidersNext]_vars

(***************************************************************************)
(* C22                                                                     *)
(***************************************************************************)
ProvidersEnded == InProviders /\ stockPc \in {"returned", "raised"}

\* the providers that are ready, in the fixed order
C22_Ready == {i \in DOMAIN ProviderNames : stockArgs.providers[i].ready # "false"}

\* the ready providers whose call does not raise an error
C22_Ending == {i \in C22_Ready : stockArgs.providers[i].outcome # "raises"}

\* the names of the ready providers up to provider `last`, in order
C22_NamesUpTo(last) ==
    SelectSeq(ProviderNames,
              LAMBDA name : \E i \in C22_Ready : i <= last /\ ProviderNames[i] = name)

\* the methods awaited so far are those of the ready providers, in the fixed
\* order, none after a provider that returned or was cancelled
C22_CalledInOrder ==
    InProviders /\ stockPc # "call" =>
        \E last \in 0 .. Len(ProviderNames) :
            /\ stockLocals.attempted = C22_NamesUpTo(last)
            /\ \A i \in C22_Ending : i >= last

\* C22: when every provider fails or is not ready, the fetch raises 503 and
\* nothing is cached; otherwise the providers are tried in the order yahoo,
\* fmp, alpha_vantage without those that are not ready, the result of the
\* first that succeeds is returned and no later one is called, fallback_used
\* is true exactly when an earlier provider raised, and a cancellation leaves
\* at once without another provider being tried.
C22_FirstReadyProviderWins ==
    /\ C22_CalledInOrder
    /\ ProvidersEnded =>
         IF C22_Ending = {}
         THEN /\ stockOut.status = "503"
              /\ store = [k \in Keys |-> Null]
              /\ stockLocals.attempted = C22_NamesUpTo(Len(ProviderNames))
         ELSE LET first == CHOOSE i \in C22_Ending : \A j \in C22_Ending : i <= j
              IN  /\ stockLocals.attempted = C22_NamesUpTo(first)
                  /\ stockOut.fallback_used <=> (\E j \in C22_Ready : j < first)
                  /\ IF stockArgs.providers[first].outcome = "returns"
                     THEN /\ stockOut.status = "returned"
                          /\ stockOut.source = ProviderNames[first]
                          /\ store[stockArgs.key] # Null
                          /\ Loads(store[stockArgs.key].value).body = ProviderNames[first]
                     ELSE /\ stockOut.status = "cancelled"
                          /\ store = [k \in Keys |-> Null]

\* yahoo raised, fmp was not ready, alpha_vantage answered
C22_Witness ==
    /\ ProvidersEnded
    /\ stockOut.status = "returned"
    /\ stockOut.source = "alpha_vantage"
    /\ stockOut.fallback_used
    /\ stockOut.attempted_providers = <<"yahoo", "alpha_vantage">>

(***************************************************************************)
(* C28.  add_transaction answers 400 to a sell of a symbol without a       *)
(* position (or with a position of quantity <= 0) and to a sell of more    *)
(* than the held quantity plus 1e-9, to no other sell, and a rejected sell *)
(* changes nothing: the ledger and the positions (quantity and             *)
(* average_buy_price) stay as they were.                                   *)
(***************************************************************************)
C28_NoHolding(payload) ==
    \/ payload.symbol \notin DOMAIN positions
    \/ positions[payload.symbol].quantity <= 0

C28_TooMuch(payload) ==
    /\ payload.symbol \in DOMAIN positions
    /\ payload.quantity - positions[payload.symbol].quantity > LotEpsilon

C28_Step ==
    \A payload \in Payloads :
        add_transaction(payload) /\ payload.side = "sell" =>
            IF C28_NoHolding(payload) \/ C28_TooMuch(payload)
            THEN /\ response'.status = 400
                 /\ ledger' = ledger
                 /\ positions' = positions
            ELSE /\ response'.status = 200
                 /\ Len(ledger') = Len(ledger) + 1

C28_RejectedSellChangesNothing ==
    /\ [][C28_Step]_vars
    /\ [][response'.status = 400 => ledger' = ledger /\ positions' = positions]_vars

\* a holding of 11 units is left after a buy and an accepted sell, and the
\* last request, a sell, was refused
C28_Witness ==
    /\ response = [op |-> "add_transaction", status |-> 400]
    /\ Len(ledger) = 2
    /\ ledger[1].side = "buy" /\ ledger[2].side = "sell"
    /\ Held(ledger[1].symbol)
    /\ positions[ledger[1].symbol].quantity = 11

(***************************************************************************)
(* PortfolioService (services/portfolio_service.py): the pure analytics    *)
(* functions.  Market values are whole amounts; a holding's market_value   *)
(* is <<amount>> or Null (missing, or what _to_number refuses), its sector  *)
(* a name or None.                                                         *)
(***************************************************************************)
MaxHoldings == 3

MarketValues == {Null} \cup {<<v>> : v \in {-50, 0, 50, 100, 300}}
SectorNames == {None, "Tech", "Energy"}

HoldingItems == [market_value : MarketValues, sector : SectorNames]

DiversificationCalls ==
    [fn : {"diversification_score"}, holdings : SeqsUpTo(HoldingItems, MaxHoldings)]

\* int(): the float cut towards zero
Truncated(a) == IF a[1] >= 0 THEN a[1] \div a[2] ELSE -((-a[1]) \div a[2])

\* self._to_number(item.get("market_value")) or 0
MarketValueOrZero(item) == IF item.market_value = Null THEN 0 ELSE item.market_value[1]

\* str(item.get("sector") or "Unknown")
SectorOrUnknown(item) == IF item.sector = None THEN "Unknown" ELSE item.sector

RECURSIVE SumOfValues(_)
SumOfValues(items) ==
    IF items = <<>> THEN 0
    ELSE MarketValueOrZero(Head(items)) + SumOfValues(Tail(items))

\* lines 125-128: the holdings of one sector
InSector(items, sector) ==
    SelectSeq(items, LAMBDA item : SectorOrUnknown(item) = sector)

RECURSIVE SumOfSquares(_)
SumOfSquares(items) ==
    IF items = <<>> THEN 0
    ELSE MarketValueOrZero(Head(items)) * MarketValueOrZero(Head(items))
         + SumOfSquares(Tail(items))

\* a final clamp that only bounds the score from above
BoundedAbove(score) == Min(100, score)

\* line 132: max(0, min(100, score))
Bounded(score) == Max(0, Min(100, score))

\* lines 112-132
diversification_score(items) ==
    IF items = <<>> THEN 0
    ELSE
    LET total_value == SumOfValues(items)
    IN  IF total_value <= 0 THEN 0
        ELSE
        LET hhi == R(SumOfSquares(items), total_value * total_value)
            n == Max(1, Len(items))
            diversified_component ==
                IF n = 1 THEN RZero
                ELSE RDiv(RMinus(RInt(1), hhi), RMinus(RInt(1), R(1, n)))
            sectors == {SectorOrUnknown(items[i]) : i \in DOMAIN items}
            sector_weight(sector) ==
                R(SumOfValues(InSector(items, sector)), total_value)
            top_sector ==
                CHOOSE w \in {sector_weight(s) : s \in sectors} :
                    \A s \in sectors : RLeq(sector_weight(s), w)
            score ==
                Truncated(RPlus(RTimes(RMax(RZero, diversified_component), RInt(70)),
                                RTimes(RMinus(RInt(1), top_sector), RInt(30))))
        IN  Bounded(score)

DiversificationScore ==
    /\ stockPc = "call"
    /\ stockArgs.fn = "diversification_score"
    /\ stockOut' = [value |-> diversification_score(stockArgs.holdings)]
    /\ stockPc' = "returned"
    /\ UNCHANGED <<stockArgs, stockLocals>>
    /\ UNCHANGED <<portfolioVars, scrVars, coreVars>>

(***************************************************************************)
(* C23.  diversification_score is 0 for a single holding, for no holding   *)
(* and for a total market value <= 0, and for every list of holdings it is *)
(* an integer between 0 and 100.                                           *)
(***************************************************************************)
DiversificationReturned ==
    stockArgs.fn = "diversification_score" /\ stockPc = "returned"

C23_Total ==
    SumOfValues(stockArgs.holdings)

C23_ScoreInRange ==
    DiversificationReturned =>
        /\ stockOut.value \in 0 .. 100
        /\ Len(stockArgs.holdings) <= 1 => stockOut.value = 0
        /\ C23_Total <= 0 => stockOut.value = 0

\* a single holding of positive value scores 0
C23_Witness ==
    /\ DiversificationReturned
    /\ Len(stockArgs.holdings) = 1
    /\ C23_Total > 0
    /\ stockOut.value = 0

(***************************************************************************)
(* PortfolioService._build_series.  A date is a day of January 2024, 0 for *)
(* a value _to_date refuses; a close is <<amount>> or Null; a point is     *)
(* <<dt, close>>.  The 30 benchmark points the function asks for are       *)
(* scaled down to MinBenchmarkPoints.                                      *)
(***************************************************************************)
MinBenchmarkPoints == 2

BenchmarkDays == 1 .. MinBenchmarkPoints + 1

Row(day, close) == [date |-> day, close |-> close]

\* the benchmark rows of a set of days, as the provider may deliver them:
\* ascending or descending, the first row twice, a row without a usable
\* close among them
BenchmarkHistories ==
    {(IF junk THEN <<Row(2, <<0>>)>> ELSE <<>>)
       \o (IF descending THEN Reverse(rows) ELSE rows)
       \o (IF twice /\ rows # <<>> THEN <<rows[1]>> ELSE <<>>) :
        rows \in {[i \in DOMAIN AscendingSeq(days) |->
                      Row(AscendingSeq(days)[i], <<100 + 10 * AscendingSeq(days)[i]>>)] :
                  days \in SUBSET BenchmarkDays},
        junk \in BOOLEAN, descending \in BOOLEAN, twice \in BOOLEAN}

HoldingHistories ==
    {<<>>,
     <<Row(1, <<10>>)>>,
     <<Row(2, <<20>>)>>,
     <<Row(3, <<30>>)>>,
     <<Row(1, <<10>>), Row(3, <<30>>)>>,
     <<Row(3, <<30>>), Row(1, <<10>>)>>,
     <<Row(2, Null)>>,
     <<Row(0, <<20>>), Row(3, <<30>>)>>,
     <<Row(1, <<10>>), Row(2, <<25>>)>>}

SeriesHolding(symbol, value, history) ==
    [symbol |-> symbol, market_value |-> value, history |-> history]

\* one or two holdings; the second may repeat the symbol of the first
SeriesHoldings ==
    {<<>>}
    \cup {<<SeriesHolding("AAA", v, h)>> : v \in {<<0>>, <<100>>}, h \in HoldingHistories}
    \cup {<<SeriesHolding("AAA", v1, h1), SeriesHolding(s2, v2, h2)>> :
            v1 \in {<<0>>, <<100>>}, h1 \in HoldingHistories,
            s2 \in Symbols, v2 \in {<<0>>, <<300>>}, h2 \in HoldingHistories}

BuildSeriesCalls ==
    [fn : {"_build_series"}, holdings : SeriesHoldings,
     benchmark_history : BenchmarkHistories]

\* lines 176-179 and 192-196: the rows with a date and a positive close
ValidPoints(history) ==
    LET usable(row) == row.date # 0 /\ row.close # Null /\ row.close[1] > 0
        rows == SelectSeq(history, usable)
    IN  [i \in DOMAIN rows |-> <<rows[i].date, rows[i].close[1]>>]

\* list.sort(key=date): a stable sort
InsertByDate(sorted, point) ==
    LET before == SelectSeq(sorted, LAMBDA p : p[1] <= point[1])
        after == SelectSeq(sorted, LAMBDA p : p[1] > point[1])
    IN  before \o <<point>> \o after

RECURSIVE SortedByDate(_)
SortedByDate(points) ==
    IF points = <<>> THEN <<>>
    ELSE InsertByDate(SortedByDate(SubSeq(points, 1, Len(points) - 1)),
                      points[Len(points)])

DigitChars == <<"0", "1", "2", "3", "4", "5", "6", "7", "8", "9">>

\* date.isoformat(), as a sequence of characters
IsoFormat(dt) ==
    <<"2", "0", "2", "4", "-", "0", "1", "-">>
        \o <<DigitChars[(dt \div 10) + 1], DigitChars[(dt % 10) + 1]>>

\* lines 186-206
HoldingsWithHistory(items) ==
    LET total_value == SumOfValues(items)
        kept == SelectSeq(items, LAMBDA item :
                    MarketValueOrZero(item) > 0 /\ ValidPoints(item.history) # <<>>)
    IN  [i \in DOMAIN kept |->
            [symbol |-> kept[i].symbol,
             weight |-> IF total_value > 0
                        THEN R(MarketValueOrZero(kept[i]), total_value) ELSE RZero,
             points |-> SortedByDate(ValidPoints(kept[i].history))]]

\* lines 226-229: the while loop over the points of one holding
RECURSIVE AdvancedPointer(_, _, _)
AdvancedPointer(points, pointer, dt) ==
    IF pointer < Len(points) /\ points[pointer + 1][1] <= dt
    THEN AdvancedPointer(points, pointer + 1, dt)
    ELSE pointer

\* lines 222-230: pointers and last_close after the holdings from k on
RECURSIVE Advanced(_, _, _, _, _)
Advanced(items, k, pointers, last_close, dt) ==
    IF k > Len(items) THEN [pointers |-> pointers, last_close |-> last_close]
    ELSE LET symbol == items[k].symbol
             points == items[k].points
             pointer == AdvancedPointer(points, pointers[symbol], dt)
         IN  Advanced(items, k + 1, With(pointers, symbol, pointer),
                      IF pointer > pointers[symbol]
                      THEN With(last_close, symbol, points[pointer][2])
                      ELSE last_close,
                      dt)

\* a gate that opens as soon as one holding has a close
GatedOnAnyClose(last_close, items) == DOMAIN last_close # {}

\* line 232: the date is skipped until every holding has a close
Gated(last_close, items) == Cardinality(DOMAIN last_close) >= Len(items)

\* lines 243-250
RECURSIVE PortfolioIndex(_, _, _, _)
PortfolioIndex(items, k, base_close, last_close) ==
    IF k > Len(items) THEN RZero
    ELSE LET symbol == items[k].symbol
             rest == PortfolioIndex(items, k + 1, base_close, last_close)
         IN  IF symbol \notin DOMAIN base_close \/ symbol \notin DOMAIN last_close
             THEN rest
             ELSE RPlus(RTimes(items[k].weight,
                               R(last_close[symbol], base_close[symbol])), rest)

EmptySeries == [portfolio |-> <<>>, benchmark |-> <<>>, dates |-> <<>>]

InBuildSeries == stockArgs.fn = "_build_series"

\* lines 174-219
BuildSeriesBegin ==
    /\ stockPc = "call"
    /\ InBuildSeries
    /\ LET benchmark_points == SortedByDate(ValidPoints(stockArgs.benchmark_history))
           holdings_with_history == HoldingsWithHistory(stockArgs.holdings)
       IN  IF Len(benchmark_points) < MinBenchmarkPoints \/ holdings_with_history = <<>>
           THEN /\ stockOut' = EmptySeries
                /\ stockPc' = "returned"
                /\ UNCHANGED stockLocals
           ELSE /\ stockLocals' =
                      [benchmark_points |-> benchmark_points,
                       holdings_with_history |-> holdings_with_history,
                       index |-> 1,
                       pointers |-> [s \in {holdings_with_history[i].symbol :
                                              i \in DOMAIN holdings_with_history} |-> 0],
                       last_close |-> <<>>,
                       base_close |-> <<>>,
                       start_benchmark_close |-> 0,
                       portfolio_values |-> <<>>,
                       benchmark_values |-> <<>>,
                       dates |-> <<>>]
                /\ stockPc' = "series"
                /\ UNCHANGED stockOut
    /\ UNCHANGED stockArgs
    /\ UNCHANGED <<portfolioVars, scrVars, coreVars>>

\* lines 221-255: one pass of the loop over the benchmark points
BuildSeriesPoint ==
    /\ stockPc = "series"
    /\ InBuildSeries
    /\ stockLocals.index <= Len(stockLocals.benchmark_points)
    /\ LET l == stockLocals
           items == l.holdings_with_history
           dt == l.benchmark_points[l.index][1]
           benchmark_close == l.benchmark_points[l.index][2]
           adv == Advanced(items, 1, l.pointers, l.last_close, dt)
           moved == [l EXCEPT !.index = @ + 1, !.pointers = adv.pointers,
                              !.last_close = adv.last_close]
           first == DOMAIN l.base_close = {}
           base_close ==
               IF first
               THEN [s \in DOMAIN adv.last_close |-> adv.last_close[s]]
               ELSE l.base_close
           start_benchmark_close ==
               IF first THEN benchmark_close ELSE l.start_benchmark_close
           \* benchmark_index_by_date keeps the last close of a date
           same_day == SelectSeq(l.benchmark_points, LAMBDA p : p[1] = dt)
           benchmark_index == R(same_day[Len(same_day)][2], start_benchmark_close)
       IN  IF ~Gated(adv.last_close, items)
           THEN stockLocals' = moved
           ELSE IF start_benchmark_close <= 0
           THEN stockLocals' =
                    [moved EXCEPT !.base_close = base_close,
                                  !.start_benchmark_close = start_benchmark_close]
           ELSE stockLocals' =
                    [moved EXCEPT
                        !.base_close = base_close,
                        !.start_benchmark_close = start_benchmark_close,
                        !.dates = Append(@, IsoFormat(dt)),
                        !.portfolio_values =
                            Append(@, PortfolioIndex(items, 1, base_close,
                                                     adv.last_close)),
                        !.benchmark_values = Append(@, benchmark_index)]
    /\ UNCHANGED <<stockPc, stockArgs, stockOut>>
    /\ UNCHANGED <<portfolioVars, scrVars, coreVars>>

\* line 257
BuildSeriesReturn ==
    /\ stockPc = "series"
    /\ InBuildSeries
    /\ stockLocals.index > Len(stockLocals.benchmark_points)
    /\ stockOut' = [portfolio |-> stockLocals.portfolio_values,
                    benchmark |-> stockLocals.benchmark_values,
                    dates |-> stockLocals.dates]
    /\ stockPc' = "returned"
    /\ UNCHANGED <<stockArgs, stockLocals>>
    /\ UNCHANGED <<portfolioVars, scrVars, coreVars>>

(***************************************************************************)
(* C25                                                                     *)
(***************************************************************************)
\* the rank of a character in the order of str comparison
C25_Rank(ch) == IF ch = "-" THEN 0 ELSE CHOOSE i \in DOMAIN DigitChars : DigitChars[i] = ch

\* a <= b for two strings of the same length
C25_StrLeq(a, b) ==
    \/ a = b
    \/ \E i \in DOMAIN a :
          /\ C25_Rank(a[i]) < C25_Rank(b[i])
          /\ \A j \in 1 .. i - 1 : a[j] = b[j]

\* the holdings with a positive market value and a usable history
C25_Holdings ==
    {i \in DOMAIN stockArgs.holdings :
        /\ MarketValueOrZero(stockArgs.holdings[i]) > 0
        /\ ValidPoints(stockArgs.holdings[i].history) # <<>>}

C25_Closes(i, dt) ==
    {p \in {ValidPoints(stockArgs.holdings[i].history)[k] :
              k \in DOMAIN ValidPoints(stockArgs.holdings[i].history)} : p[1] <= dt}

\* every such holding has a close on or before dt
C25_AllHaveClose(dt) == \A i \in C25_Holdings : C25_Closes(i, dt) # {}

C25_BenchmarkDates ==
    {ValidPoints(stockArgs.benchmark_history)[k][1] :
        k \in DOMAIN ValidPoints(stockArgs.benchmark_history)}

\* the lists built so far, and returned at the end
C25_Lists ==
    IF stockPc = "returned" THEN stockOut
    ELSE [portfolio |-> stockLocals.portfolio_values,
          benchmark |-> stockLocals.benchmark_values,
          dates |-> stockLocals.dates]

C25_State ==
    InBuildSeries /\ stockPc \in {"series", "returned"} =>
        LET lists == C25_Lists
            gate_dates == {dt \in C25_BenchmarkDates : C25_AllHaveClose(dt)}
        IN  /\ Len(lists.portfolio) = Len(lists.dates)
            /\ Len(lists.benchmark) = Len(lists.dates)
            /\ \A i \in DOMAIN lists.dates :
                  /\ lists.dates[i] \in {IsoFormat(dt) : dt \in gate_dates}
                  /\ \A j \in DOMAIN lists.dates :
                        i <= j => C25_StrLeq(lists.dates[i], lists.dates[j])
            /\ stockPc = "series" /\ DOMAIN stockLocals.base_close # {} =>
                  LET first == CHOOSE dt \in gate_dates : \A o \in gate_dates : dt <= o
                  IN  \A i \in C25_Holdings :
                        \E p \in C25_Closes(i, first) :
                            /\ \A q \in C25_Closes(i, first) : q[1] <= p[1]
                            /\ stockLocals.base_close[stockArgs.holdings[i].symbol] = p[2]

C25_Step ==
    InBuildSeries /\ stockPc = "series" /\ DOMAIN stockLocals.base_close # {} =>
        /\ stockPc' = "series" => stockLocals'.base_close = stockLocals.base_close
        /\ stockLocals'.index > stockLocals.index =>
              Len(stockLocals'.dates) = Len(stockLocals.dates) + 1

\* C25: _build_series emits no point for a benchmark date before the first
\* benchmark date on which every holding with a positive market value and a
\* usable history has a close on or before it; the base closes are those of
\* that date and never change afterwards (from then on every benchmark date
\* yields a point); the portfolio, benchmark and dates lists always have the
\* same length and the dates ascend.
C25_WaitsForAllHoldings ==
    /\ []C25_State
    /\ [][C25_Step]_vars

\* two holdings, the second with its first close on day 3: the benchmark
\* days 1 and 2 are passed over and the series starts on day 3
C25_Witness ==
    /\ InBuildSeries
    /\ stockPc = "returned"
    /\ Len(stockArgs.holdings) = 2
    /\ C25_Holdings = {1, 2}
    /\ C25_BenchmarkDates = {1, 2, 3}
    /\ stockOut.dates = <<IsoFormat(3)>>
    /\ Len(stockOut.portfolio) = 1

(***************************************************************************)
(* PortfolioService._xirr.  A cashflow is <<day, amount>>; rates and       *)
(* values are exact rationals.  range(16) and range(120) are scaled down   *)
(* to MaxDoublings and MaxXirrSteps.                                       *)
(***************************************************************************)
MaxDoublings == 2
MaxXirrSteps == 3

\* 0.0001 ** 81 is below the smallest positive float and evaluates to 0.0
UnderflowYears == 81

XirrDays == {0, 365}
XirrAmounts == {-100, 0, 150, 1000}

\* cashflows within one year, and some chosen lists: a root beyond the
\* doubled bounds, a root at the first midpoint, a purchase 81 years ago
Cashflows ==
    SeqsUpTo(XirrDays \X XirrAmounts, 2)
    \cup {<<<<0, -100>>, <<365, 50>>, <<365, 100>>>>,
          <<<<0, -100>>, <<365, 10000>>>>,
          <<<<0, -20000>>, <<365, 50001>>>>,
          <<<<365 * UnderflowYears, 150>>, <<0, -100>>>>,
          <<<<365 * UnderflowYears, 150>>, <<365 * UnderflowYears, -100>>>>}

XirrCalls == [fn : {"_xirr"}, cashflows : Cashflows]

\* line 273, for dates a whole number of years apart
YearsBetween(dt, start_date) == (dt - start_date) \div 365

\* (1 + rate) ** years as the float operation gives it
Power(base, years) ==
    IF years >= UnderflowYears /\ RLeq(base, R(1, 10000)) THEN RZero
    ELSE RPow(base, years)

\* lines 270-275: the value of xnpv(rate), or the ZeroDivisionError the
\* division raises
RECURSIVE XnpvFrom(_, _, _, _)
XnpvFrom(cashflows, k, start_date, rate) ==
    IF k > Len(cashflows) THEN [raised |-> FALSE, total |-> RZero]
    ELSE LET factor == Power(RPlus(RInt(1), rate),
                             YearsBetween(cashflows[k][1], start_date))
             rest == XnpvFrom(cashflows, k + 1, start_date, rate)
         IN  IF factor = RZero \/ rest.raised
             THEN [raised |-> TRUE, total |-> RZero]
             ELSE [raised |-> FALSE,
                   total |-> RPlus(RDiv(RInt(cashflows[k][2]), factor), rest.total)]

xnpv(cashflows, rate) == XnpvFrom(cashflows, 1, cashflows[1][1], rate)

\* the sign of a rational
SignOf(a) == IF a[1] > 0 THEN 1 ELSE IF a[1] < 0 THEN -1 ELSE 0

\* f_a * f_b <= 0
Bracketed(f_a, f_b) == SignOf(f_a) * SignOf(f_b) <= 0

\* abs(f_mid) < 1e-8
NearZero(f_mid) == Abs(f_mid[1]) <= (f_mid[2] - 1) \div 100000000

InXirr == stockArgs.fn = "_xirr"

XirrReturned(value) == [kind |-> "returned", value |-> value]

\* lines 260-280
XirrBegin ==
    /\ stockPc = "call"
    /\ InXirr
    /\ LET given == stockArgs.cashflows
           has_pos == \E i \in DOMAIN given : given[i][2] > 0
           has_neg == \E i \in DOMAIN given : given[i][2] < 0
           cashflows == SortedByDate(given)
           low == R(-9999, 10000)
           high == RInt(4)
       IN  IF Len(given) < 2 \/ ~(has_pos /\ has_neg)
           THEN /\ stockOut' = XirrReturned(Null)
                /\ stockPc' = "returned"
                /\ UNCHANGED stockLocals
           ELSE IF xnpv(cashflows, low).raised \/ xnpv(cashflows, high).raised
           THEN /\ stockOut' = [kind |-> "raised", value |-> "ZeroDivisionError"]
                /\ stockPc' = "raised"
                /\ UNCHANGED stockLocals
           ELSE /\ stockLocals' =
                      [cashflows |-> cashflows, low |-> low, high |-> high,
                       f_low |-> xnpv(cashflows, low).total,
                       f_high |-> xnpv(cashflows, high).total,
                       doublings |-> 0, steps |-> 0]
                /\ stockPc' = "doubling"
                /\ UNCHANGED stockOut
    /\ UNCHANGED stockArgs
    /\ UNCHANGED <<portfolioVars, scrVars, coreVars>>

\* lines 282-286: one pass of the doubling loop
XirrDouble ==
    /\ stockPc = "doubling"
    /\ InXirr
    /\ stockLocals.doublings < MaxDoublings
    /\ ~Bracketed(stockLocals.f_low, stockLocals.f_high)
    /\ LET high == RTimes(stockLocals.high, RInt(2))
       IN  stockLocals' = [stockLocals EXCEPT
                               !.high = high,
                               !.f_high = xnpv(stockLocals.cashflows, high).total,
                               !.doublings = @ + 1]
    /\ UNCHANGED <<stockPc, stockArgs, stockOut>>
    /\ UNCHANGED <<portfolioVars, scrVars, coreVars>>

\* lines 283-284 and 288-289: the loop is left; without a sign change the
\* result is None
XirrBracketCheck ==
    /\ stockPc = "doubling"
    /\ InXirr
    /\ \/ stockLocals.doublings >= MaxDoublings
       \/ Bracketed(stockLocals.f_low, stockLocals.f_high)
    /\ IF ~Bracketed(stockLocals.f_low, stockLocals.f_high)
       THEN /\ stockOut' = XirrReturned(Null)
            /\ stockPc' = "returned"
       ELSE /\ stockPc' = "bisect"
            /\ UNCHANGED stockOut
    /\ UNCHANGED <<stockArgs, stockLocals>>
    /\ UNCHANGED <<portfolioVars, scrVars, coreVars>>

\* lines 291-301: one pass of the bisection loop
XirrBisect ==
    /\ stockPc = "bisect"
    /\ InXirr
    /\ stockLocals.steps < MaxXirrSteps
    /\ LET mid == Half(stockLocals.low, stockLocals.high)
           f_mid == xnpv(stockLocals.cashflows, mid).total
       IN  IF NearZero(f_mid)
           THEN /\ stockOut' = XirrReturned(mid)
                /\ stockPc' = "returned"
                /\ stockLocals' = [stockLocals EXCEPT !.steps = @ + 1]
           ELSE /\ stockLocals' =
                      IF Bracketed(stockLocals.f_low, f_mid)
                      THEN [stockLocals EXCEPT !.high = mid, !.f_high = f_mid,
                                               !.steps = @ + 1]
                      ELSE [stockLocals EXCEPT !.low = mid, !.f_low = f_mid,
                                               !.steps = @ + 1]
                /\ UNCHANGED <<stockPc, stockOut>>
    /\ UNCHANGED stockArgs
    /\ UNCHANGED <<portfolioVars, scrVars, coreVars>>

\* line 302
XirrReturn ==
    /\ stockPc = "bisect"
    /\ InXirr
    /\ stockLocals.steps >= MaxXirrSteps
    /\ stockOut' = XirrReturned(Half(stockLocals.low, stockLocals.high))
    /\ stockPc' = "returned"
    /\ UNCHANGED <<stockArgs, stockLocals>>
    /\ UNCHANGED <<portfolioVars, scrVars, coreVars>>

(***************************************************************************)
(* C26                                                                     *)
(***************************************************************************)
XirrEnded == InXirr /\ stockPc \in {"returned", "raised"}

\* fewer than two cashflows, or no amount > 0, or no amount < 0
C26_Lacking ==
    \/ Len(stockArgs.cashflows) < 2
    \/ ~\E i \in DOMAIN stockArgs.cashflows : stockArgs.cashflows[i][2] > 0
    \/ ~\E i \in DOMAIN stockArgs.cashflows : stockArgs.cashflows[i][2] < 0

\* a <= b and a < b, by the sign of the difference
C26_Leq(a, b) == RMinus(b, a)[1] >= 0
C26_Less(a, b) == RMinus(b, a)[1] > 0

\* the bracket of the locals is the one the function works on: its values
\* are those of xnpv at its ends
C26_BracketValues ==
    /\ stockLocals.f_low = xnpv(stockLocals.cashflows, stockLocals.low).total
    /\ stockLocals.f_high = xnpv(stockLocals.cashflows, stockLocals.high).total
    /\ C26_Less(stockLocals.low, stockLocals.high)

\* what holds of a call that went past the validity test and the first two
\* evaluations of xnpv
C26_Searching ==
    /\ C26_BracketValues
    /\ stockLocals.doublings <= MaxDoublings
    /\ stockLocals.steps <= MaxXirrSteps
    /\ stockPc = "bisect" => Bracketed(stockLocals.f_low, stockLocals.f_high)
    /\ stockPc = "returned" =>
          IF Bracketed(stockLocals.f_low, stockLocals.f_high)
          THEN /\ stockOut.value # Null
               /\ C26_Leq(stockLocals.low, stockOut.value)
               /\ C26_Leq(stockOut.value, stockLocals.high)
          ELSE /\ stockOut.value = Null
               /\ stockLocals.doublings = MaxDoublings
               /\ stockLocals.steps = 0

\* C26: _xirr returns null when the list has fewer than 2 entries or lacks
\* an amount > 0 or an amount < 0, and when the root is not bracketed after
\* the upper bound was doubled as often as allowed; otherwise it ends after
\* at most the allowed number of bisection steps and returns a rate inside
\* the final bracket, which always holds a sign change of xnpv.
C26_NullOrRateInBracket ==
    InXirr /\ stockPc # "call" =>
        /\ stockPc # "raised"
        /\ IF C26_Lacking
           THEN stockPc = "returned" /\ stockOut.value = Null
           ELSE C26_Searching

\* the same, but for the lists whose dates are 81 years or more apart, on
\* which the first evaluation of xnpv divides by zero
C26_NullOrRateInBracketWithinRange ==
    InXirr /\ stockPc # "call" =>
        IF C26_Lacking
        THEN stockPc = "returned" /\ stockOut.value = Null
        ELSE IF \E i, j \in DOMAIN stockArgs.cashflows :
                    YearsBetween(stockArgs.cashflows[i][1],
                                 stockArgs.cashflows[j][1]) >= UnderflowYears
        THEN stockPc = "raised"
        ELSE stockPc # "raised" /\ C26_Searching

\* a root found between the doubled bounds after all bisection steps
C26_Bisected ==
    /\ XirrEnded
    /\ stockPc = "returned"
    /\ stockOut.value # Null
    /\ stockLocals.doublings = MaxDoublings
    /\ stockLocals.steps = MaxXirrSteps

\* both signs present, yet no sign change below the last doubled bound
C26_NeverBracketed ==
    /\ XirrEnded
    /\ ~C26_Lacking
    /\ stockPc = "returned"
    /\ stockOut.value = Null

\* xnpv vanishes at the first midpoint
C26_FoundAtMidpoint ==
    /\ XirrEnded
    /\ stockPc = "returned"
    /\ stockOut.value = R(150005, 100000)
    /\ stockLocals.steps = 1

PortfolioServiceCalls == DiversificationCalls \cup BuildSeriesCalls \cup XirrCalls

PortfolioServiceNext ==
    \/ DiversificationScore
    \/ BuildSeriesBegin
    \/ BuildSeriesPoint
    \/ BuildSeriesReturn
    \/ XirrBegin
    \/ XirrDouble
    \/ XirrBracketCheck
    \/ XirrBisect
    \/ XirrReturn

InitPortfolioService ==
    /\ TaxIdle
    /\ DbInit
    /\ InsIdle
    /\ ScreenerIdle
    /\ StockCall(PortfolioServiceCalls)
    /\ CoreIdle

SpecPortfolioService == InitPortfolioService /\ [][PortfolioServiceNext]_vars

(***************************************************************************)
(* C24                                                                     *)
(***************************************************************************)
\* one of the statement-based filters of the request is active
C24_StatementFilterActive ==
    \/ filters.fcf_positive_5y
    \/ filters.debt_decreasing_trend
    \/ filters.roic_gt_wacc
    \/ filters.operating_leverage_improving
    \/ filters.min_revenue_cagr_3y # Null
    \/ filters.min_eps_cagr_5y # Null
    \/ filters.min_earnings_consistency # Null

C24_EnrichmentAwaits == {"history_5y", "financials", "insider"}

\* an enrichment fetch is awaited, or its result is held, only under its
\* filter
C24_FetchedOnlyWhenNeeded ==
    scrPc # "idle" =>
        \A s \in Tasks :
            /\ taskPc[s] = "financials" => C24_StatementFilterActive
            /\ taskPc[s] = "insider" => filters.insider_buying_only
            /\ taskPc[s] = "history_5y" => filters.max_drawdown_5y_max # Null
            /\ enrichment[s].financial_metrics.present => C24_StatementFilterActive
            /\ enrichment[s].insider.signal # Null => filters.insider_buying_only
            /\ enrichment[s].max_drawdown_5y # Null =>
                   filters.max_drawdown_5y_max # Null

\* an evaluation that leaves an enrichment await goes on to the next await
\* or ends, unless the deadline cancelled it, and when it ends it returned
\* a row or counted a rejection
C24_Step ==
    \A s \in Tasks :
        taskPc[s] \in C24_EnrichmentAwaits /\ taskPc'[s] # taskPc[s] =>
            /\ taskPc'[s] \in C24_EnrichmentAwaits \cup {"done", "cancelled"}
            /\ taskPc'[s] = "done" =>
                  \/ taskResult'[s] # Null
                  \/ \E r \in Reasons :
                        elimination_counts'[r] = elimination_counts[r] + 1

\* C24: financial statements are fetched for a symbol only when one of the
\* seven statement-based filters is active, the insider signal only when
\* insider_buying_only is set and the 5-year history only when
\* max_drawdown_5y_max is set, so that with none of these filters no such
\* fetch is issued for any symbol; a failure or a timeout of an enrichment
\* fetch never raises out of the evaluation.
C24_LazyEnrichment ==
    /\ []C24_FetchedOnlyWhenNeeded
    /\ [][C24_Step]_vars

\* min_revenue_cagr_3y is the only filter, the statements could not be
\* fetched, and the evaluation ended by counting the rejection
C24_Witness ==
    /\ scrPc # "idle"
    /\ filters.min_revenue_cagr_3y # Null
    /\ ~filters.fcf_positive_5y
    /\ 1 \in Tasks
    /\ upstream[1] = "answers"
    /\ taskPc[1] = "done"
    /\ ~enrichment[1].financial_metrics.present
    /\ taskResult[1] = Null
    /\ elimination_counts["min_revenue_cagr_3y"] = 1

====
